---- MODULE Spec2Model ----
(***************************************************************************)
(* Stream-routing broker core: RoundRobin, FanOutSequential, FanOut and    *)
(* the Retry output wrapper, modelled as state machines over unbuffered    *)
(* channels.  A channel operation is a rendezvous and is one action; a Go  *)
(* select is the disjunction of the actions of its cases.                  *)
(***************************************************************************)
EXTENDS Integers, Sequences, FiniteSets, TLC

\* ---------------------------------------------------------------- bounds
MaxTx == 3          \* inbound transactions a producer offers
MaxOutputs == 3     \* outputs of a broker

Payloads == {"hello", "world"}
AckValues == {"ok", "err"}

\* Transaction.Ack(ctx, err): the value is delivered to the sink, or, once ctx is
\* cancelled, Ack may return the context's error without delivering it.
AckOutcomes(ctxDone) == IF ctxDone THEN {"delivered", "cancelled"} ELSE {"delivered"}

\* A transaction is a payload paired with its acknowledgment sink.
InSink(id) == [kind |-> "in", n |-> id]
DownSink(n) == [kind |-> "down", n |-> n]
NewTransaction(id, payload, sink) == [id |-> id, payload |-> payload, sink |-> sink]
NoTx == [id |-> 0, payload |-> "", sink |-> [kind |-> "none", n |-> 0]]

CeilDiv(a, b) == IF a <= 0 THEN 0 ELSE (a + b - 1) \div b

VARIABLES
    \* ---- FanOut
    fo_N,           \* number of configured outputs
    fo_offer,       \* inbound transactions the producer offers
    fo_blocked,     \* the output that never receives from its channel, if any
    fo_maxInFlight, \* inbound transactions aggregated in parallel
    fo_started,     \* Consume has started the broker
    fo_closeRaised, \* the close signal was raised
    fo_closed,      \* the broker has shut down
    fo_accepted,    \* transactions received from the inbound channel so far
    fo_inClosed,    \* producer closed the inbound channel
    fo_tx,          \* per inbound transaction: none, active, acked or abandoned
    fo_st,          \* per inbound transaction and output: tosend, sent, failed or ok
    fo_hist,        \* per inbound transaction and output: what was put on the
                    \* output's channel and what the output acknowledged, in order
    fo_acks,        \* per inbound sink: values written
    \* ---- Retry
    rt_K,           \* conf.MaxRetries
    rt_elapsedSet,  \* conf.Backoff.MaxElapsedTime is non-zero
    rt_pc,          \* position of Retry.loop
    rt_closeRaised, \* shutSig: close-at-leisure was signalled
    rt_ctxDone,     \* ctx of loop is cancelled
    rt_outClosed,   \* r.transactionsOut is closed
    rt_closed,      \* shutSig: shutdown complete
    rt_errLooped,   \* errLooped
    rt_tran,        \* tran held between receive and first send
    rt_offer,       \* transactions the producer has to offer on r.transactionsIn
    rt_accepted,    \* transactions received from r.transactionsIn so far
    rt_inClosed,    \* producer closed r.transactionsIn
    rt_nextSink,    \* rChans made so far
    rt_g,           \* per inbound transaction: its goroutine
    rt_hist,        \* per inbound transaction: what was put on transactionsOut and
                    \* what the child acknowledged, in order
    rt_acks,        \* per inbound sink: values written
    \* ---- FanOutSequential
    fs_N,           \* len(o.outputs)
    fs_maxInFlight, \* o.maxInFlight
    fs_started,     \* Consume has started the loop
    fs_ctxDone,     \* o.ctx is cancelled (CloseAsync)
    fs_closedChan,  \* o.closedChan is closed
    fs_outClosed,   \* per output: outputTSChans[k] is closed
    fs_w,           \* per sendLoop goroutine: pc, ts, i, resChan
    fs_accepted,    \* transactions received from o.transactions so far
    fs_inTx,        \* the transactions as the producer sent them
    fs_inClosed,    \* producer closed o.transactions
    fs_nextSink,    \* resChans made so far
    fs_hist,        \* per inbound transaction: what was put on the output channels and
                    \* what the outputs acknowledged, in order
    fs_acks,        \* per inbound sink: values written
    fs_offer,       \* transactions the producer offers in the run
    fs_cfg,         \* what NewFanOutSequential and WithMaxInFlight were given
    \* ---- RoundRobin
    rr_N,           \* len(o.outputs)
    rr_pc,          \* position of RoundRobin.loop
    rr_running,     \* o.running
    rr_closeChan,   \* o.closeChan is closed
    rr_closedChan,  \* o.closedChan is closed
    rr_i,           \* cursor i of the loop
    rr_ts,          \* transaction held between receive and send
    rr_accepted,    \* transactions received from o.transactions so far
    rr_inTx,        \* the transactions as the producer sent them
    rr_inClosed,    \* producer closed o.transactions
    rr_out,         \* per output: transactions received on outputTSChans[k]
    rr_outClosed,   \* per output: outputTSChans[k] is closed
    rr_acks,        \* per inbound sink: values written, with their writer
    \* ---- DynamicFanIn
    di_running,     \* d.running
    di_closer,      \* position of the first CloseAsync call
    di_closeChan,   \* d.closeChan is closed
    di_closedChan,  \* d.closedChan is closed
    di_txClosed,    \* d.transactionChan is closed
    di_pc,          \* position of managerLoop
    di_req,         \* the SetInput call managerLoop is serving
    di_err,         \* err of managerLoop
    di_offered,     \* transactions the inputs have handed to their forwarders
    di_call,        \* per SetInput call: position, arguments, result
    di_inputs,      \* d.inputs and d.inputClosedChans: label -> member
    di_m,           \* per member: its forwarder goroutine and its input
    di_merged,      \* the transactions received from d.transactionChan, in order
    \* ---- DynamicFanOut
    df_maxInFlight, \* inbound transactions aggregated in parallel
    df_started,     \* Consume has started the broker
    df_closeRaised, \* the close signal was raised
    df_closed,      \* the broker has shut down
    df_inClosed,    \* producer closed the inbound channel
    df_accepted,    \* transactions received from the inbound channel so far
    df_pc,          \* position of the loop: run, removing, reply or done
    df_req,         \* the SetOutput call the loop is serving
    df_err,         \* result of the request being served
    df_fails,       \* failure acknowledgments given so far
    df_call,        \* per SetOutput call: position, arguments, result
    df_outputs,     \* the label map: label -> member
    df_mem,         \* per member: its output, its hooks, its channel
    df_tx,          \* per inbound transaction: none, active, acked or abandoned
    df_st,          \* per inbound transaction and member: tosend, sent, failed,
                    \* ok or cancelled
    df_acks,        \* per inbound sink: values written
    \* ---- Consume, of every broker
    cs_kind,        \* which broker this is
    cs_transactions,\* the inbound channel field (o.transactions, r.transactionsIn)
    cs_wrapped,     \* Retry: the wrapped output has been started
    cs_loops,       \* dispatch loops started
    cs_log,         \* the Consume calls made: argument and result
    \* ---- WaitForClose, of the output-side brokers
    cl_kind,        \* which broker is shut down and waited for
    cl_wait,        \* what the last WaitForClose call returned
    \* ---- Switch
    sw_N,           \* number of cases
    sw_continue,    \* per case: the case declares continue
    sw_retry,       \* retry_until_success
    sw_offer,       \* inbound transactions the producer offers
    sw_blocked,     \* the output that never receives from its channel, if any
    sw_maxInFlight, \* inbound transactions routed in parallel
    sw_started,     \* Consume has started the broker
    sw_closeRaised, \* the close signal was raised
    sw_closed,      \* the broker has shut down
    sw_inClosed,    \* producer closed the inbound channel
    sw_accepted,    \* transactions received from the inbound channel so far
    sw_fails,       \* failure acknowledgments given so far
    sw_tx,          \* per inbound transaction: none, active, acked or abandoned
    sw_st,          \* per inbound transaction and case: none, tosend, sent,
                    \* failed or ok
    sw_acks,        \* per inbound sink: values written
    \* ---- Switch, one batch
    sb_N,           \* number of cases
    sb_continue,    \* per case: the case declares continue
    sb_strict,      \* strict_mode
    sb_pc,          \* idle, route, dispatch or done
    sb_len,         \* parts of the inbound batch
    sb_k,           \* the next part to route
    sb_row,         \* per case: what its predicate gave on the part routed last
    sb_targets,     \* per part: the cases it is routed to
    sb_errs,        \* per part: its error in the acknowledgment being assembled
    sb_st,          \* per case: none, tosend, sent or acked
    sb_out,         \* per case: the sub-batches put on the channel of its output
    sb_res,         \* per case: what its output acknowledged
    sb_ack,         \* the acknowledgment of the inbound transaction
    \* ---- FanIn
    fi_N,           \* number of inputs
    fi_asked,       \* per input: CloseAsync was called on it
    fi_srcClosed,   \* per input: its transaction channel is closed
    fi_emitted,     \* per input: transactions it has handed to its forwarder
    fi_pc,          \* per input: position of its forwarder goroutine
    fi_in,          \* per input: the transaction its forwarder holds
    fi_inputMap,    \* i.inputMap
    fi_loop,        \* position of loop
    fi_txClosed,    \* i.transactions is closed
    fi_closedChan,  \* i.closedChan is closed
    fi_merged,      \* the transactions received from i.transactions, in order
    fi_wait,        \* what WaitForClose returned
    \* ---- Pulsar writer
    pw_on,          \* newPulsarWriter has returned the writer
    pw_client,      \* p.client and p.producer: nil or open
    pw_atLeisure,   \* shutSig: close-at-leisure is signalled
    pw_hasClosed,   \* shutSig: shutdown-complete is signalled
    pw_pending,     \* disconnect goroutines started by CloseAsync that have not run
    pw_closes,      \* CloseAsync calls made
    pw_connects,    \* ConnectWithContext calls made
    pw_err,         \* what the last ConnectWithContext returned
    pw_writes,      \* WriteWithContext calls made
    pw_res,         \* what the last WriteWithContext returned
    pw_wait         \* what WaitForClose returned

rrVars == <<rr_N, rr_pc, rr_running, rr_closeChan, rr_closedChan, rr_i, rr_ts,
            rr_accepted, rr_inTx, rr_inClosed, rr_out, rr_outClosed, rr_acks>>

fsVars == <<fs_N, fs_maxInFlight, fs_started, fs_ctxDone, fs_closedChan, fs_outClosed, fs_w,
            fs_accepted, fs_inTx, fs_inClosed, fs_nextSink, fs_hist, fs_acks, fs_offer, fs_cfg>>

rtVars == <<rt_offer, rt_K, rt_elapsedSet, rt_pc, rt_closeRaised, rt_ctxDone, rt_outClosed, rt_closed,
            rt_errLooped, rt_tran, rt_accepted, rt_inClosed, rt_nextSink, rt_g, rt_hist, rt_acks>>

foVars == <<fo_N, fo_offer, fo_blocked, fo_maxInFlight, fo_started, fo_closeRaised, fo_closed, fo_accepted, fo_inClosed,
            fo_tx, fo_st, fo_hist, fo_acks>>

diVars == <<di_running, di_closer, di_closeChan, di_closedChan, di_txClosed, di_pc, di_req,
            di_err, di_offered, di_call, di_inputs, di_m, di_merged>>

swVars == <<sw_N, sw_continue, sw_retry, sw_offer, sw_blocked, sw_maxInFlight, sw_started,
            sw_closeRaised, sw_closed, sw_inClosed, sw_accepted, sw_fails, sw_tx, sw_st, sw_acks>>

sbVars == <<sb_N, sb_continue, sb_strict, sb_pc, sb_len, sb_k, sb_row, sb_targets, sb_errs,
            sb_st, sb_out, sb_res, sb_ack>>

fiVars == <<fi_N, fi_asked, fi_srcClosed, fi_emitted, fi_pc, fi_in, fi_inputMap, fi_loop,
            fi_txClosed, fi_closedChan, fi_merged, fi_wait>>

pwVars == <<pw_on, pw_client, pw_atLeisure, pw_hasClosed, pw_pending, pw_closes, pw_connects,
            pw_err, pw_writes, pw_res, pw_wait>>

clVars == <<cl_kind, cl_wait>>

csVars == <<cs_kind, cs_transactions, cs_wrapped, cs_loops, cs_log>>

dfVars == <<df_maxInFlight, df_started, df_closeRaised, df_closed, df_inClosed, df_accepted,
            df_pc, df_req, df_err, df_fails, df_call, df_outputs, df_mem, df_tx, df_st, df_acks>>

vars == <<rrVars, fsVars, rtVars, foVars, diVars, dfVars, csVars, clVars, swVars, sbVars, fiVars, pwVars>>

\* What each component leaves alone.
notRR == <<fsVars, rtVars, foVars, diVars, dfVars, csVars, clVars, swVars, sbVars, fiVars, pwVars>>
notFS == <<rrVars, rtVars, foVars, diVars, dfVars, csVars, clVars, swVars, sbVars, fiVars, pwVars>>
notRT == <<rrVars, fsVars, foVars, diVars, dfVars, csVars, clVars, swVars, sbVars, fiVars, pwVars>>
notFO == <<rrVars, fsVars, rtVars, diVars, dfVars, csVars, clVars, swVars, sbVars, fiVars, pwVars>>
notDI == <<rrVars, fsVars, rtVars, foVars, dfVars, csVars, clVars, swVars, sbVars, fiVars, pwVars>>
notDF == <<rrVars, fsVars, rtVars, foVars, diVars, csVars, clVars, swVars, sbVars, fiVars, pwVars>>
notCS == <<rrVars, fsVars, rtVars, foVars, diVars, dfVars, clVars, swVars, sbVars, fiVars, pwVars>>
notCL == <<rrVars, fsVars, rtVars, foVars, diVars, dfVars, csVars, swVars, sbVars, fiVars, pwVars>>
notSW == <<rrVars, fsVars, rtVars, foVars, diVars, dfVars, csVars, clVars, sbVars, fiVars, pwVars>>
notSB == <<rrVars, fsVars, rtVars, foVars, diVars, dfVars, csVars, clVars, swVars, fiVars, pwVars>>
notPW == <<rrVars, fsVars, rtVars, foVars, diVars, dfVars, csVars, clVars, swVars, sbVars, fiVars>>
notFI == <<rrVars, fsVars, rtVars, foVars, diVars, dfVars, csVars, clVars, swVars, sbVars, pwVars>>

\* ================================================================ RoundRobin

RRInit ==
    /\ rr_N \in 1..MaxOutputs
    /\ rr_pc = "idle"
    /\ rr_running = 1
    /\ rr_closeChan = FALSE
    /\ rr_closedChan = FALSE
    /\ rr_i = 0
    /\ rr_ts = NoTx
    /\ rr_accepted = 0
    /\ rr_inTx = [t \in 1..MaxTx |-> NoTx]
    /\ rr_inClosed = FALSE
    /\ rr_out = [k \in 0..(MaxOutputs - 1) |-> <<>>]
    /\ rr_outClosed = [k \in 0..(MaxOutputs - 1) |-> FALSE]
    /\ rr_acks = [t \in 1..MaxTx |-> <<>>]

\* NewRoundRobin returns no error for an empty output list either.
RRInitAnyList ==
    /\ rr_N \in 0..MaxOutputs
    /\ rr_pc = "idle"
    /\ rr_running = 1
    /\ rr_closeChan = FALSE
    /\ rr_closedChan = FALSE
    /\ rr_i = 0
    /\ rr_ts = NoTx
    /\ rr_accepted = 0
    /\ rr_inTx = [t \in 1..MaxTx |-> NoTx]
    /\ rr_inClosed = FALSE
    /\ rr_out = [k \in 0..(MaxOutputs - 1) |-> <<>>]
    /\ rr_outClosed = [k \in 0..(MaxOutputs - 1) |-> FALSE]
    /\ rr_acks = [t \in 1..MaxTx |-> <<>>]

RRIdle ==
    /\ rr_N = 1
    /\ rr_pc = "idle"
    /\ rr_running = 1
    /\ rr_closeChan = FALSE
    /\ rr_closedChan = FALSE
    /\ rr_i = 0
    /\ rr_ts = NoTx
    /\ rr_accepted = 0
    /\ rr_inTx = [t \in 1..MaxTx |-> NoTx]
    /\ rr_inClosed = FALSE
    /\ rr_out = [k \in 0..(MaxOutputs - 1) |-> <<>>]
    /\ rr_outClosed = [k \in 0..(MaxOutputs - 1) |-> FALSE]
    /\ rr_acks = [t \in 1..MaxTx |-> <<>>]

\* Consume: binds the inbound channel and starts the loop.
RRConsume ==
    /\ rr_pc = "idle"
    /\ rr_pc' = "top"
    /\ UNCHANGED <<rr_N, rr_running, rr_closeChan, rr_closedChan, rr_i, rr_ts,
                   rr_accepted, rr_inTx, rr_inClosed, rr_out, rr_outClosed, rr_acks>>
    /\ UNCHANGED notRR

\* for atomic.LoadInt32(&o.running) == 1 { ... }
RRLoopTop ==
    /\ rr_pc = "top"
    /\ rr_pc' = IF rr_running = 1 THEN "recv" ELSE "defer"
    /\ UNCHANGED <<rr_N, rr_running, rr_closeChan, rr_closedChan, rr_i, rr_ts,
                   rr_accepted, rr_inTx, rr_inClosed, rr_out, rr_outClosed, rr_acks>>
    /\ UNCHANGED notRR

\* case ts, open = <-o.transactions, with open = true
RRReceive ==
    /\ rr_pc = "recv"
    /\ ~rr_inClosed
    /\ rr_accepted < MaxTx
    /\ \E p \in Payloads :
         LET id == rr_accepted + 1
             ts == NewTransaction(id, p, InSink(id))
         IN /\ rr_ts' = ts
            /\ rr_inTx' = [rr_inTx EXCEPT ![id] = ts]
            /\ rr_accepted' = id
    /\ rr_pc' = "send"
    /\ UNCHANGED <<rr_N, rr_running, rr_closeChan, rr_closedChan, rr_i,
                   rr_inClosed, rr_out, rr_outClosed, rr_acks>>
    /\ UNCHANGED notRR

\* case ts, open = <-o.transactions, with open = false: return
RRReceiveClosed ==
    /\ rr_pc = "recv"
    /\ rr_inClosed
    /\ rr_pc' = "defer"
    /\ UNCHANGED <<rr_N, rr_running, rr_closeChan, rr_closedChan, rr_i, rr_ts,
                   rr_accepted, rr_inTx, rr_inClosed, rr_out, rr_outClosed, rr_acks>>
    /\ UNCHANGED notRR

\* o.outputTSChans[i]: the index is checked against len(o.outputTSChans) when
\* the second select is entered, before any of its cases is chosen.
RRInBounds(i, n) == 0 <= i /\ i < n

\* The selects of the loop that have a case <-o.closeChan.
RRCloseSelectsMut == {"recv"}
RRCloseSelects == {"recv", "send"}

\* case <-o.closeChan: return   (either select)
RRCloseSeen ==
    /\ rr_pc \in RRCloseSelects
    /\ rr_pc = "send" => RRInBounds(rr_i, rr_N)
    /\ rr_closeChan
    /\ rr_pc' = "defer"
    /\ UNCHANGED <<rr_N, rr_running, rr_closeChan, rr_closedChan, rr_i, rr_ts,
                   rr_accepted, rr_inTx, rr_inClosed, rr_out, rr_outClosed, rr_acks>>
    /\ UNCHANGED notRR

\* The transaction put on the selected output's channel.
RRForwardMut(ts) == NewTransaction(ts.id, ts.payload, DownSink(ts.id))
RRForward(ts) == ts

\* i++; if i >= len(o.outputTSChans) { i = 0 }
RRNextCursorMut(i, n) == IF i + 2 >= n THEN 0 ELSE i + 2
RRNextCursor(i, n) == IF i + 1 >= n THEN 0 ELSE i + 1

\* case o.outputTSChans[i] <- ts, then the cursor advances
RRSend ==
    /\ rr_pc = "send"
    /\ RRInBounds(rr_i, rr_N)
    /\ rr_out' = [rr_out EXCEPT ![rr_i] = Append(@, RRForward(rr_ts))]
    /\ rr_i' = RRNextCursor(rr_i, rr_N)
    /\ rr_ts' = NoTx
    /\ rr_pc' = "top"
    /\ UNCHANGED <<rr_N, rr_running, rr_closeChan, rr_closedChan,
                   rr_accepted, rr_inTx, rr_inClosed, rr_outClosed, rr_acks>>
    /\ UNCHANGED notRR

\* o.outputTSChans[i] with i outside the list: the goroutine panics with
\* "index out of range"; the deferred function runs while the panic unwinds,
\* and the process ends.
RRIndexPanic ==
    /\ rr_pc = "send"
    /\ ~RRInBounds(rr_i, rr_N)
    /\ rr_pc' = "panic"
    /\ UNCHANGED <<rr_N, rr_running, rr_closeChan, rr_closedChan, rr_i, rr_ts,
                   rr_accepted, rr_inTx, rr_inClosed, rr_out, rr_outClosed, rr_acks>>
    /\ UNCHANGED notRR

\* deferred: for _, c := range o.outputTSChans { close(c) }
RRDefer ==
    /\ rr_pc = "defer"
    /\ rr_outClosed' = [k \in 0..(MaxOutputs - 1) |-> k < rr_N]
    /\ rr_pc' = "closeall"
    /\ UNCHANGED <<rr_N, rr_running, rr_closeChan, rr_closedChan, rr_i, rr_ts,
                   rr_accepted, rr_inTx, rr_inClosed, rr_out, rr_acks>>
    /\ UNCHANGED notRR

\* deferred: closeAllOutputs(o.outputs), which returns when every output has
\* closed; close(o.closedChan)
RRDeferSignal ==
    /\ rr_pc = "closeall"
    /\ rr_closedChan' = TRUE
    /\ rr_pc' = "done"
    /\ UNCHANGED <<rr_N, rr_running, rr_closeChan, rr_i, rr_ts,
                   rr_accepted, rr_inTx, rr_inClosed, rr_out, rr_outClosed, rr_acks>>
    /\ UNCHANGED notRR

\* CloseAsync: CompareAndSwap(&o.running, 1, 0) then close(o.closeChan)
RRCloseAsync ==
    /\ rr_running = 1
    /\ rr_running' = 0
    /\ rr_closeChan' = TRUE
    /\ UNCHANGED <<rr_N, rr_pc, rr_closedChan, rr_i, rr_ts,
                   rr_accepted, rr_inTx, rr_inClosed, rr_out, rr_outClosed, rr_acks>>
    /\ UNCHANGED notRR

\* The producer closes the inbound channel.
RRProducerClose ==
    /\ ~rr_inClosed
    /\ rr_inClosed' = TRUE
    /\ UNCHANGED <<rr_N, rr_pc, rr_running, rr_closeChan, rr_closedChan, rr_i, rr_ts,
                   rr_accepted, rr_inTx, rr_out, rr_outClosed, rr_acks>>
    /\ UNCHANGED notRR

\* An output acknowledges a transaction it received: ts.Ack(ctx, res) writes
\* res to the sink the transaction carries.
RROutputAck ==
    /\ \E k \in 0..(rr_N - 1) : \E j \in 1..Len(rr_out[k]) : \E res \in AckValues :
         LET ts == rr_out[k][j]
         IN /\ ts.sink.kind = "in"
            /\ \A a \in 1..Len(rr_acks[ts.sink.n]) : rr_acks[ts.sink.n][a].by # k
            /\ rr_acks' = [rr_acks EXCEPT ![ts.sink.n] = Append(@, [by |-> k, val |-> res])]
    /\ UNCHANGED <<rr_N, rr_pc, rr_running, rr_closeChan, rr_closedChan, rr_i, rr_ts,
                   rr_accepted, rr_inTx, rr_inClosed, rr_out, rr_outClosed>>
    /\ UNCHANGED notRR

RRNext ==
    \/ RRConsume
    \/ RRLoopTop
    \/ RRReceive
    \/ RRReceiveClosed
    \/ RRCloseSeen
    \/ RRSend
    \/ RRDefer
    \/ RRDeferSignal
    \/ RRCloseAsync
    \/ RRProducerClose
    \/ RROutputAck

\* ========================================================== FanOutSequential

MaxInFlight == 1    \* largest max-in-flight of a FanOutSequential in the other runs
FSMaxTx == 1        \* inbound transactions offered to a FanOutSequential in the other runs
FSMaxOutputs == 2   \* outputs of a FanOutSequential
FSMaxFails == 1     \* failure acknowledgments the outputs give in a run
FSMaxWorkers == 2   \* largest max-in-flight a FanOutSequential is configured with
FSMaxOffered == 2   \* inbound transactions offered when max-in-flight is checked

FSWorkers == 1..FSMaxWorkers
FSTxs == 1..FSMaxOffered

\* What output.GetMaxInFlight gives for an output: a count, or ok = false.
FSNoReport == -1
FSReports == {FSNoReport} \cup (0..FSMaxWorkers)
\* The argument of WithMaxInFlight, or that it was not called.
FSNoCall == -2
FSWithArgs == {FSNoCall} \cup (-1..FSMaxWorkers)

\* NewFanOutSequential: maxInFlight starts at 1 and is raised to each larger
\* count an output reports, the outputs taken in order.
RECURSIVE FSNewMaxInFlight(_, _)
FSNewMaxInFlight(reports, n) ==
    IF n = 0 THEN 1
    ELSE LET m == FSNewMaxInFlight(reports, n - 1)
             mif == reports[n - 1]
         IN IF mif # FSNoReport /\ mif > m THEN mif ELSE m

\* WithMaxInFlight: if i < 1 { i = 1 }; o.maxInFlight = i
FSWithMaxInFlightMut(i) == i
FSWithMaxInFlight(i) == IF i < 1 THEN 1 ELSE i

\* The sendLoop goroutines loop starts: for i := 0; i < o.maxInFlight; i++
FSStartsMut(w, maxInFlight) == TRUE
FSStarts(w, maxInFlight) == w <= maxInFlight

FSNoReports == [k \in 0..(FSMaxOutputs - 1) |-> FSNoReport]

\* The payload the producer gives its id-th transaction.
PayloadOf(id) == IF id % 2 = 1 THEN "hello" ELSE "world"

FSWorkerOff == [pc |-> "off", ts |-> NoTx, i |-> 0, resChan |-> DownSink(0)]

FSCommonInit ==
    /\ fs_started = FALSE
    /\ fs_ctxDone = FALSE
    /\ fs_closedChan = FALSE
    /\ fs_outClosed = [k \in 0..(FSMaxOutputs - 1) |-> FALSE]
    /\ fs_w = [w \in FSWorkers |-> FSWorkerOff]
    /\ fs_accepted = 0
    /\ fs_inTx = [t \in FSTxs |-> NoTx]
    /\ fs_inClosed = FALSE
    /\ fs_nextSink = 0
    /\ fs_hist = [t \in FSTxs |-> <<>>]
    /\ fs_acks = [t \in FSTxs |-> <<>>]

\* NewFanOutSequential, then WithMaxInFlight: i < 1 is raised to 1.
FSInit ==
    /\ fs_N \in 1..FSMaxOutputs
    /\ \E i \in 1..MaxInFlight :
         /\ fs_cfg = [reports |-> FSNoReports, with |-> i]
         /\ fs_maxInFlight = FSWithMaxInFlight(i)
    /\ fs_offer = FSMaxTx
    /\ FSCommonInit

\* NewFanOutSequential over one output that may report a max-in-flight, then
\* WithMaxInFlight or no such call.
FSInitInFlight ==
    /\ fs_N = 1
    /\ \E r \in FSReports : \E i \in FSWithArgs :
         /\ fs_cfg = [reports |-> [FSNoReports EXCEPT ![0] = r], with |-> i]
         /\ fs_maxInFlight = IF i = FSNoCall THEN FSNewMaxInFlight(fs_cfg.reports, fs_N)
                                              ELSE FSWithMaxInFlight(i)
    /\ fs_offer = FSMaxOffered
    /\ FSCommonInit

FSIdle ==
    /\ fs_N = 1
    /\ fs_maxInFlight = 1
    /\ fs_cfg = [reports |-> FSNoReports, with |-> 1]
    /\ fs_offer = 0
    /\ FSCommonInit

FSFailsAll == Cardinality({tp \in FSTxs \X (1..(2 * (FSMaxFails + FSMaxOutputs))) :
                              tp[2] <= Len(fs_hist[tp[1]]) /\ fs_hist[tp[1]][tp[2]].ev = "err"})

\* Consume starts loop, which starts maxInFlight sendLoop goroutines.
FSConsume ==
    /\ ~fs_started
    /\ fs_started' = TRUE
    /\ fs_w' = [w \in FSWorkers |->
                  IF FSStarts(w, fs_maxInFlight) THEN [FSWorkerOff EXCEPT !.pc = "recv"]
                                         ELSE FSWorkerOff]
    /\ UNCHANGED <<fs_N, fs_maxInFlight, fs_ctxDone, fs_closedChan, fs_outClosed,
                   fs_accepted, fs_inTx, fs_inClosed, fs_nextSink, fs_hist, fs_acks>>
    /\ UNCHANGED <<fs_offer, fs_cfg>>
    /\ UNCHANGED notFS

\* case ts, open = <-o.transactions with open = true; the range over the
\* outputs starts at i = 0 with a resChan made for that output.
FSReceive(w) ==
    /\ fs_w[w].pc = "recv"
    /\ ~fs_inClosed
    /\ fs_accepted < fs_offer
    /\ LET id == fs_accepted + 1
             ts == NewTransaction(id, PayloadOf(id), InSink(id))
         IN /\ fs_w' = [fs_w EXCEPT ![w] = [pc |-> "send", ts |-> ts, i |-> 0,
                                            resChan |-> DownSink(fs_nextSink + 1)]]
            /\ fs_inTx' = [fs_inTx EXCEPT ![id] = ts]
            /\ fs_accepted' = id
    /\ fs_nextSink' = fs_nextSink + 1
    /\ UNCHANGED <<fs_N, fs_maxInFlight, fs_started, fs_ctxDone, fs_closedChan, fs_outClosed,
                   fs_inClosed, fs_hist, fs_acks>>
    /\ UNCHANGED <<fs_offer, fs_cfg>>
    /\ UNCHANGED notFS

\* case ts, open = <-o.transactions with open = false: return
FSReceiveClosed(w) ==
    /\ fs_w[w].pc = "recv"
    /\ fs_inClosed
    /\ fs_w' = [fs_w EXCEPT ![w].pc = "done"]
    /\ UNCHANGED <<fs_N, fs_maxInFlight, fs_started, fs_ctxDone, fs_closedChan, fs_outClosed,
                   fs_accepted, fs_inTx, fs_inClosed, fs_nextSink, fs_hist, fs_acks>>
    /\ UNCHANGED <<fs_offer, fs_cfg>>
    /\ UNCHANGED notFS

\* <-o.ctx.Done() is ready once CloseAsync cancelled the context
FSCtxDoneFiredMut(ctxDone) == TRUE
FSCtxDoneFired(ctxDone) == ctxDone

\* case <-o.ctx.Done(): return, in any of the selects; throt.Retry() returning
\* false because its close channel fired: return
FSCtxDoneSeen(w) ==
    /\ fs_w[w].pc \in {"recv", "send", "wait", "throttle"}
    /\ FSCtxDoneFired(fs_ctxDone)
    /\ fs_w' = [fs_w EXCEPT ![w].pc = "done"]
    /\ UNCHANGED <<fs_N, fs_maxInFlight, fs_started, fs_ctxDone, fs_closedChan, fs_outClosed,
                   fs_accepted, fs_inTx, fs_inClosed, fs_nextSink, fs_hist, fs_acks>>
    /\ UNCHANGED <<fs_offer, fs_cfg>>
    /\ UNCHANGED notFS

\* msgCopy := ts.Payload.Copy()
FSCopy(payload) == payload

\* case o.outputTSChans[i] <- message.NewTransaction(msgCopy, resChan)
FSSend(w) ==
    /\ fs_w[w].pc = "send"
    /\ LET me == fs_w[w]
       IN fs_hist' = [fs_hist EXCEPT ![me.ts.id] =
                        Append(@, [ev |-> "send", out |-> me.i,
                                   tx |-> NewTransaction(me.ts.id, FSCopy(me.ts.payload), me.resChan)])]
    /\ fs_w' = [fs_w EXCEPT ![w].pc = "wait"]
    /\ UNCHANGED <<fs_N, fs_maxInFlight, fs_started, fs_ctxDone, fs_closedChan, fs_outClosed,
                   fs_accepted, fs_inTx, fs_inClosed, fs_nextSink, fs_acks>>
    /\ UNCHANGED <<fs_offer, fs_cfg>>
    /\ UNCHANGED notFS

\* The output index the goroutine works on after an acknowledgment: break
\* sendLoop moves to the next output, a failure stays on the same one.
FSAfterAckMut(i, res) == i + 1
FSAfterAck(i, res) == IF res = "ok" THEN i + 1 ELSE i

\* case res := <-resChan
FSOutputAck(w, res) ==
    /\ fs_w[w].pc = "wait"
    /\ res = "err" => FSFailsAll < FSMaxFails
    /\ LET me == fs_w[w]
           ni == FSAfterAck(me.i, res)
       IN /\ fs_hist' = [fs_hist EXCEPT ![me.ts.id] = Append(@, [ev |-> res, out |-> me.i, tx |-> NoTx])]
          /\ IF ni = me.i
                THEN /\ fs_w' = [fs_w EXCEPT ![w].pc = "throttle"]
                     /\ UNCHANGED fs_nextSink
                ELSE IF ni >= fs_N
                        THEN /\ fs_w' = [fs_w EXCEPT ![w].pc = "ack", ![w].i = ni]
                             /\ UNCHANGED fs_nextSink
                        ELSE /\ fs_w' = [fs_w EXCEPT ![w].pc = "send", ![w].i = ni,
                                                     ![w].resChan = DownSink(fs_nextSink + 1)]
                             /\ fs_nextSink' = fs_nextSink + 1
    /\ UNCHANGED <<fs_N, fs_maxInFlight, fs_started, fs_ctxDone, fs_closedChan, fs_outClosed,
                   fs_accepted, fs_inTx, fs_inClosed, fs_acks>>
    /\ UNCHANGED <<fs_offer, fs_cfg>>
    /\ UNCHANGED notFS

\* throt.Retry() returned true after its wait: send again
FSThrottleRetry(w) ==
    /\ fs_w[w].pc = "throttle"
    /\ fs_w' = [fs_w EXCEPT ![w].pc = "send"]
    /\ UNCHANGED <<fs_N, fs_maxInFlight, fs_started, fs_ctxDone, fs_closedChan, fs_outClosed,
                   fs_accepted, fs_inTx, fs_inClosed, fs_nextSink, fs_hist, fs_acks>>
    /\ UNCHANGED <<fs_offer, fs_cfg>>
    /\ UNCHANGED notFS

\* _ = ts.Ack(o.ctx, nil): the producer receives the value
FSAck(w) ==
    /\ fs_w[w].pc = "ack"
    /\ fs_acks' = [fs_acks EXCEPT ![fs_w[w].ts.id] = Append(@, "ok")]
    /\ fs_w' = [fs_w EXCEPT ![w] = [FSWorkerOff EXCEPT !.pc = "recv"]]
    /\ UNCHANGED <<fs_N, fs_maxInFlight, fs_started, fs_ctxDone, fs_closedChan, fs_outClosed,
                   fs_accepted, fs_inTx, fs_inClosed, fs_nextSink, fs_hist>>
    /\ UNCHANGED <<fs_offer, fs_cfg>>
    /\ UNCHANGED notFS

\* _ = ts.Ack(o.ctx, nil): the context is done and Ack returns its error
FSAckCancelled(w) ==
    /\ fs_w[w].pc = "ack"
    /\ "cancelled" \in AckOutcomes(fs_ctxDone)
    /\ fs_w' = [fs_w EXCEPT ![w] = [FSWorkerOff EXCEPT !.pc = "recv"]]
    /\ UNCHANGED <<fs_N, fs_maxInFlight, fs_started, fs_ctxDone, fs_closedChan, fs_outClosed,
                   fs_accepted, fs_inTx, fs_inClosed, fs_nextSink, fs_hist, fs_acks>>
    /\ UNCHANGED <<fs_offer, fs_cfg>>
    /\ UNCHANGED notFS

\* deferred in loop: wg.Wait(); for _, c := range o.outputTSChans { close(c) }
FSWaitGroupDoneMut(workers) == TRUE
FSWaitGroupDone(workers) == \A w \in FSWorkers : workers[w].pc \in {"off", "done"}

FSDefer ==
    /\ fs_started
    /\ ~fs_outClosed[0]
    /\ FSWaitGroupDone(fs_w)
    /\ fs_outClosed' = [k \in 0..(FSMaxOutputs - 1) |-> k < fs_N]
    /\ UNCHANGED <<fs_N, fs_maxInFlight, fs_started, fs_ctxDone, fs_closedChan, fs_w,
                   fs_accepted, fs_inTx, fs_inClosed, fs_nextSink, fs_hist, fs_acks>>
    /\ UNCHANGED <<fs_offer, fs_cfg>>
    /\ UNCHANGED notFS

\* deferred in loop: closeAllOutputs(o.outputs), which returns when every
\* output has closed; close(o.closedChan)
FSDeferSignal ==
    /\ fs_outClosed[0]
    /\ ~fs_closedChan
    /\ fs_closedChan' = TRUE
    /\ UNCHANGED <<fs_N, fs_maxInFlight, fs_started, fs_ctxDone, fs_outClosed, fs_w,
                   fs_accepted, fs_inTx, fs_inClosed, fs_nextSink, fs_hist, fs_acks>>
    /\ UNCHANGED <<fs_offer, fs_cfg>>
    /\ UNCHANGED notFS

\* CloseAsync: o.close()
FSCloseAsync ==
    /\ ~fs_ctxDone
    /\ fs_ctxDone' = TRUE
    /\ UNCHANGED <<fs_N, fs_maxInFlight, fs_started, fs_closedChan, fs_outClosed, fs_w,
                   fs_accepted, fs_inTx, fs_inClosed, fs_nextSink, fs_hist, fs_acks>>
    /\ UNCHANGED <<fs_offer, fs_cfg>>
    /\ UNCHANGED notFS

\* The producer closes the inbound channel.
FSProducerClose ==
    /\ ~fs_inClosed
    /\ fs_inClosed' = TRUE
    /\ UNCHANGED <<fs_N, fs_maxInFlight, fs_started, fs_ctxDone, fs_closedChan, fs_outClosed, fs_w,
                   fs_accepted, fs_inTx, fs_nextSink, fs_hist, fs_acks>>
    /\ UNCHANGED <<fs_offer, fs_cfg>>
    /\ UNCHANGED notFS

FSNext ==
    \/ FSConsume
    \/ \E w \in FSWorkers : FSReceive(w)
    \/ \E w \in FSWorkers : FSReceiveClosed(w)
    \/ \E w \in FSWorkers : FSCtxDoneSeen(w)
    \/ \E w \in FSWorkers : FSSend(w)
    \/ \E w \in FSWorkers : \E res \in AckValues : FSOutputAck(w, res)
    \/ \E w \in FSWorkers : FSThrottleRetry(w)
    \/ \E w \in FSWorkers : FSAck(w)
    \/ \E w \in FSWorkers : FSAckCancelled(w)
    \/ FSDefer
    \/ FSDeferSignal
    \/ FSCloseAsync
    \/ FSProducerClose

\* ===================================================================== Retry

RTMaxTx == 1        \* inbound transactions offered to a Retry
RTMaxK == 1         \* largest max_retries configured
RTMaxFails == 2     \* failure acknowledgments the child gives in a run

\* Transactions the model has room for: a producer with a backlog offers one
\* more than RTMaxTx.
RTSlots == RTMaxTx + 1

RTGoroutineNone == [pc |-> "none", inErrLoop |-> FALSE, numTries |-> 0,
                    resChan |-> DownSink(0), resOut |-> "ok", payload |-> ""]

RTCommonInit ==
    /\ rt_pc = "idle"
    /\ rt_closeRaised = FALSE
    /\ rt_ctxDone = FALSE
    /\ rt_outClosed = FALSE
    /\ rt_closed = FALSE
    /\ rt_errLooped = 0
    /\ rt_tran = NoTx
    /\ rt_accepted = 0
    /\ rt_inClosed = FALSE
    /\ rt_nextSink = 0
    /\ rt_g = [t \in 1..RTSlots |-> RTGoroutineNone]
    /\ rt_hist = [t \in 1..RTSlots |-> <<>>]
    /\ rt_acks = [t \in 1..RTSlots |-> <<>>]

\* NewRetry with any accepted configuration of max_retries and max_elapsed_time.
RTInit ==
    /\ rt_offer = RTMaxTx
    /\ rt_K \in 0..RTMaxK
    /\ rt_elapsedSet \in BOOLEAN
    /\ RTCommonInit

\* The same, fed by a producer that has one transaction more to offer.
RTInitBacklog ==
    /\ rt_offer = RTSlots
    /\ rt_K \in 0..RTMaxK
    /\ rt_elapsedSet \in BOOLEAN
    /\ RTCommonInit

RTIdle ==
    /\ rt_offer = 0
    /\ rt_K = 0
    /\ rt_elapsedSet = FALSE
    /\ RTCommonInit

RTFails(t) == Cardinality({p \in 1..Len(rt_hist[t]) : rt_hist[t][p].ev = "err"})
RTFailsAll == Cardinality({tp \in (1..RTSlots) \X (1..(2 * RTMaxFails + 2)) :
                              tp[2] <= Len(rt_hist[tp[1]]) /\ rt_hist[tp[1]][tp[2]].ev = "err"})
RTSends(t) == Cardinality({p \in 1..Len(rt_hist[t]) : rt_hist[t][p].ev = "send"})

\* backOff.NextBackOff() of the policy built by the configuration: "Stop" once
\* max_retries (when non-zero) delays were handed out or max_elapsed_time (when
\* non-zero) has passed, a delay otherwise.
RTNextBackOff(K, elapsedSet, numTries, elapsed) ==
    IF (K > 0 /\ numTries >= K) \/ (elapsedSet /\ elapsed) THEN "Stop" ELSE "Delay"

\* Consume: binds the inbound channel and starts the loop.
RTConsume ==
    /\ rt_pc = "idle"
    /\ rt_pc' = "top"
    /\ UNCHANGED <<rt_offer, rt_K, rt_elapsedSet, rt_closeRaised, rt_ctxDone, rt_outClosed, rt_closed,
                   rt_errLooped, rt_tran, rt_accepted, rt_inClosed, rt_nextSink, rt_g, rt_hist, rt_acks>>
    /\ UNCHANGED notRT

\* for !r.shutSig.ShouldCloseAtLeisure() { ... }; leaving the loop returns, and
\* the deferred done() cancels ctx before the deferred wg.Wait() starts.
RTLoopTop ==
    /\ rt_pc = "top"
    /\ IF rt_closeRaised
          THEN rt_pc' = "wgwait" /\ rt_ctxDone' = TRUE
          ELSE rt_pc' = "chk" /\ UNCHANGED rt_ctxDone
    /\ UNCHANGED <<rt_offer, rt_K, rt_elapsedSet, rt_closeRaised, rt_outClosed, rt_closed,
                   rt_errLooped, rt_tran, rt_accepted, rt_inClosed, rt_nextSink, rt_g, rt_hist, rt_acks>>
    /\ UNCHANGED notRT

\* for atomic.LoadInt64(&errLooped) > 0 { select ... }: left once the counter reads 0
RTErrLoopedZero ==
    /\ rt_pc = "chk"
    /\ rt_errLooped = 0
    /\ rt_pc' = "recv"
    /\ UNCHANGED <<rt_offer, rt_K, rt_elapsedSet, rt_closeRaised, rt_ctxDone, rt_outClosed, rt_closed,
                   rt_errLooped, rt_tran, rt_accepted, rt_inClosed, rt_nextSink, rt_g, rt_hist, rt_acks>>
    /\ UNCHANGED notRT

\* case <-r.shutSig.CloseAtLeisureChan(): return, in any select of the loop
RTLoopCloseSeen ==
    /\ \/ rt_pc = "chk" /\ rt_errLooped > 0
       \/ rt_pc \in {"recv", "send"}
    /\ rt_closeRaised
    /\ rt_pc' = "wgwait"
    /\ rt_ctxDone' = TRUE
    /\ UNCHANGED <<rt_offer, rt_K, rt_elapsedSet, rt_closeRaised, rt_outClosed, rt_closed,
                   rt_errLooped, rt_tran, rt_accepted, rt_inClosed, rt_nextSink, rt_g, rt_hist, rt_acks>>
    /\ UNCHANGED notRT

\* case tran, open = <-r.transactionsIn with open = true
RTReceive ==
    /\ rt_pc = "recv"
    /\ ~rt_inClosed
    /\ rt_accepted < rt_offer
    /\ LET id == rt_accepted + 1
       IN /\ rt_tran' = NewTransaction(id, PayloadOf(id), InSink(id))
          /\ rt_accepted' = id
    /\ rt_pc' = "send"
    /\ UNCHANGED <<rt_offer, rt_K, rt_elapsedSet, rt_closeRaised, rt_ctxDone, rt_outClosed, rt_closed,
                   rt_errLooped, rt_inClosed, rt_nextSink, rt_g, rt_hist, rt_acks>>
    /\ UNCHANGED notRT

\* case tran, open = <-r.transactionsIn with open = false: return
RTReceiveClosed ==
    /\ rt_pc = "recv"
    /\ rt_inClosed
    /\ rt_pc' = "wgwait"
    /\ rt_ctxDone' = TRUE
    /\ UNCHANGED <<rt_offer, rt_K, rt_elapsedSet, rt_closeRaised, rt_outClosed, rt_closed,
                   rt_errLooped, rt_tran, rt_accepted, rt_inClosed, rt_nextSink, rt_g, rt_hist, rt_acks>>
    /\ UNCHANGED notRT

\* rChan := make(chan error); r.transactionsOut <- NewTransaction(tran.Payload, rChan);
\* wg.Add(1); go func(tran, rChan)
RTSend ==
    /\ rt_pc = "send"
    /\ LET t == rt_tran.id
           rChan == DownSink(rt_nextSink + 1)
       IN /\ rt_hist' = [rt_hist EXCEPT ![t] =
                           Append(@, [ev |-> "send", tx |-> NewTransaction(t, rt_tran.payload, rChan)])]
          /\ rt_g' = [rt_g EXCEPT ![t] = [RTGoroutineNone EXCEPT !.pc = "top", !.resChan = rChan,
                                                                  !.payload = rt_tran.payload]]
    /\ rt_nextSink' = rt_nextSink + 1
    /\ rt_tran' = NoTx
    /\ rt_pc' = "top"
    /\ UNCHANGED <<rt_offer, rt_K, rt_elapsedSet, rt_closeRaised, rt_ctxDone, rt_outClosed, rt_closed,
                   rt_errLooped, rt_accepted, rt_inClosed, rt_acks>>
    /\ UNCHANGED notRT

\* deferred in loop: wg.Wait(); close(r.transactionsOut)
RTDefer ==
    /\ rt_pc = "wgwait"
    /\ \A t \in 1..RTSlots : rt_g[t].pc \in {"none", "done"}
    /\ rt_outClosed' = TRUE
    /\ rt_pc' = "closewrapped"
    /\ UNCHANGED <<rt_offer, rt_K, rt_elapsedSet, rt_closeRaised, rt_ctxDone, rt_closed,
                   rt_errLooped, rt_tran, rt_accepted, rt_inClosed, rt_nextSink, rt_g, rt_hist, rt_acks>>
    /\ UNCHANGED notRT

\* deferred in loop: r.wrapped.CloseAsync(); r.wrapped.WaitForClose(...), which
\* returns within the maximum shutdown wait; r.shutSig.ShutdownComplete()
RTDeferSignal ==
    /\ rt_pc = "closewrapped"
    /\ rt_closed' = TRUE
    /\ rt_pc' = "done"
    /\ UNCHANGED <<rt_offer, rt_K, rt_elapsedSet, rt_closeRaised, rt_ctxDone, rt_outClosed,
                   rt_errLooped, rt_tran, rt_accepted, rt_inClosed, rt_nextSink, rt_g, rt_hist, rt_acks>>
    /\ UNCHANGED notRT

\* goroutine: for !r.shutSig.ShouldCloseAtLeisure() { ... }; when the condition
\* fails the loop is left with resOut as it is (nil) and Ack follows.
RTGLoopTop(t) ==
    /\ rt_g[t].pc = "top"
    /\ rt_g' = [rt_g EXCEPT ![t].pc = IF rt_closeRaised THEN "ack" ELSE "waitres"]
    /\ UNCHANGED <<rt_offer, rt_K, rt_elapsedSet, rt_pc, rt_closeRaised, rt_ctxDone, rt_outClosed, rt_closed,
                   rt_errLooped, rt_tran, rt_accepted, rt_inClosed, rt_nextSink, rt_hist, rt_acks>>
    /\ UNCHANGED notRT

\* goroutine: case <-r.shutSig.CloseAtLeisureChan(): return, in any of its selects
RTGCloseSeen(t) ==
    /\ rt_g[t].pc \in {"waitres", "backoff", "resend"}
    /\ rt_closeRaised
    /\ rt_g' = [rt_g EXCEPT ![t].pc = "exit"]
    /\ UNCHANGED <<rt_offer, rt_K, rt_elapsedSet, rt_pc, rt_closeRaised, rt_ctxDone, rt_outClosed, rt_closed,
                   rt_errLooped, rt_tran, rt_accepted, rt_inClosed, rt_nextSink, rt_hist, rt_acks>>
    /\ UNCHANGED notRT

\* Where the goroutine goes after NextBackOff: Stop breaks out to Ack, a delay
\* is waited for and followed by the re-send.
RTAfterBackOffMut(next) == "backoff"
RTAfterBackOff(next) == IF next = "Stop" THEN "ack" ELSE "backoff"

\* resOut after a failure acknowledgment: the send-failed error on Stop.
RTResOutMut(next, resOut) == IF next = "Stop" THEN "err" ELSE resOut
RTResOut(next, resOut) == IF next = "Stop" THEN "failed" ELSE resOut

\* goroutine: case res = <-resChan
RTChildAck(t, res, elapsed) ==
    /\ rt_g[t].pc = "waitres"
    /\ res = "err" => RTFailsAll < RTMaxFails
    /\ rt_hist' = [rt_hist EXCEPT ![t] = Append(@, [ev |-> res, tx |-> NoTx])]
    /\ IF res = "ok"
          THEN /\ rt_g' = [rt_g EXCEPT ![t].pc = "ack", ![t].resOut = "ok"]
               /\ UNCHANGED rt_errLooped
          ELSE LET next == RTNextBackOff(rt_K, rt_elapsedSet, rt_g[t].numTries, elapsed)
               IN /\ rt_errLooped' = IF rt_g[t].inErrLoop THEN rt_errLooped ELSE rt_errLooped + 1
                  /\ rt_g' = [rt_g EXCEPT ![t].inErrLoop = TRUE,
                                          ![t].numTries = IF next = "Stop" THEN @ ELSE @ + 1,
                                          ![t].resOut = RTResOut(next, @),
                                          ![t].pc = RTAfterBackOff(next)]
    /\ UNCHANGED <<rt_offer, rt_K, rt_elapsedSet, rt_pc, rt_closeRaised, rt_ctxDone, rt_outClosed, rt_closed,
                   rt_tran, rt_accepted, rt_inClosed, rt_nextSink, rt_acks>>
    /\ UNCHANGED notRT

\* goroutine: case <-time.After(nextBackoff)
RTBackoffElapsed(t) ==
    /\ rt_g[t].pc = "backoff"
    /\ rt_g' = [rt_g EXCEPT ![t].pc = "resend"]
    /\ UNCHANGED <<rt_offer, rt_K, rt_elapsedSet, rt_pc, rt_closeRaised, rt_ctxDone, rt_outClosed, rt_closed,
                   rt_errLooped, rt_tran, rt_accepted, rt_inClosed, rt_nextSink, rt_hist, rt_acks>>
    /\ UNCHANGED notRT

\* goroutine: case r.transactionsOut <- NewTransaction(ts.Payload, resChan)
RTResend(t) ==
    /\ rt_g[t].pc = "resend"
    /\ rt_hist' = [rt_hist EXCEPT ![t] =
                     Append(@, [ev |-> "send", tx |-> NewTransaction(t, rt_g[t].payload, rt_g[t].resChan)])]
    /\ rt_g' = [rt_g EXCEPT ![t].pc = "top"]
    /\ UNCHANGED <<rt_offer, rt_K, rt_elapsedSet, rt_pc, rt_closeRaised, rt_ctxDone, rt_outClosed, rt_closed,
                   rt_errLooped, rt_tran, rt_accepted, rt_inClosed, rt_nextSink, rt_acks>>
    /\ UNCHANGED notRT

\* goroutine: ts.Ack(ctx, resOut): the producer receives resOut
RTAck(t) ==
    /\ rt_g[t].pc = "ack"
    /\ "delivered" \in AckOutcomes(rt_ctxDone)
    /\ rt_acks' = [rt_acks EXCEPT ![t] = Append(@, rt_g[t].resOut)]
    /\ rt_g' = [rt_g EXCEPT ![t].pc = "exit"]
    /\ UNCHANGED <<rt_offer, rt_K, rt_elapsedSet, rt_pc, rt_closeRaised, rt_ctxDone, rt_outClosed, rt_closed,
                   rt_errLooped, rt_tran, rt_accepted, rt_inClosed, rt_nextSink, rt_hist>>
    /\ UNCHANGED notRT

\* goroutine: ts.Ack(ctx, resOut) returns the error of the cancelled ctx
RTAckCancelled(t) ==
    /\ rt_g[t].pc = "ack"
    /\ "cancelled" \in AckOutcomes(rt_ctxDone)
    /\ rt_g' = [rt_g EXCEPT ![t].pc = "exit"]
    /\ UNCHANGED <<rt_offer, rt_K, rt_elapsedSet, rt_pc, rt_closeRaised, rt_ctxDone, rt_outClosed, rt_closed,
                   rt_errLooped, rt_tran, rt_accepted, rt_inClosed, rt_nextSink, rt_hist, rt_acks>>
    /\ UNCHANGED notRT

\* goroutine, deferred: wg.Done(); if inErrLoop { atomic.AddInt64(&errLooped, -1) }
RTGExit(t) ==
    /\ rt_g[t].pc = "exit"
    /\ rt_errLooped' = IF rt_g[t].inErrLoop THEN rt_errLooped - 1 ELSE rt_errLooped
    /\ rt_g' = [rt_g EXCEPT ![t].pc = "done"]
    /\ UNCHANGED <<rt_offer, rt_K, rt_elapsedSet, rt_pc, rt_closeRaised, rt_ctxDone, rt_outClosed, rt_closed,
                   rt_tran, rt_accepted, rt_inClosed, rt_nextSink, rt_hist, rt_acks>>
    /\ UNCHANGED notRT

\* CloseAsync: r.shutSig.CloseAtLeisure()
RTCloseAsync ==
    /\ ~rt_closeRaised
    /\ rt_closeRaised' = TRUE
    /\ UNCHANGED <<rt_offer, rt_K, rt_elapsedSet, rt_pc, rt_ctxDone, rt_outClosed, rt_closed,
                   rt_errLooped, rt_tran, rt_accepted, rt_inClosed, rt_nextSink, rt_g, rt_hist, rt_acks>>
    /\ UNCHANGED notRT

\* ctx of r.shutSig.CloseAtLeisureCtx is cancelled once close-at-leisure is signalled.
RTCtxCancelled ==
    /\ rt_closeRaised
    /\ ~rt_ctxDone
    /\ rt_ctxDone' = TRUE
    /\ UNCHANGED <<rt_offer, rt_K, rt_elapsedSet, rt_pc, rt_closeRaised, rt_outClosed, rt_closed,
                   rt_errLooped, rt_tran, rt_accepted, rt_inClosed, rt_nextSink, rt_g, rt_hist, rt_acks>>
    /\ UNCHANGED notRT

\* The producer closes the inbound channel.
RTProducerClose ==
    /\ ~rt_inClosed
    /\ rt_inClosed' = TRUE
    /\ UNCHANGED <<rt_offer, rt_K, rt_elapsedSet, rt_pc, rt_closeRaised, rt_ctxDone, rt_outClosed, rt_closed,
                   rt_errLooped, rt_tran, rt_accepted, rt_nextSink, rt_g, rt_hist, rt_acks>>
    /\ UNCHANGED notRT

RTNext ==
    \/ RTConsume
    \/ RTLoopTop
    \/ RTErrLoopedZero
    \/ RTLoopCloseSeen
    \/ RTReceive
    \/ RTReceiveClosed
    \/ RTSend
    \/ RTDefer
    \/ RTDeferSignal
    \/ \E t \in 1..RTSlots : RTGLoopTop(t)
    \/ \E t \in 1..RTSlots : RTGCloseSeen(t)
    \/ \E t \in 1..RTSlots : \E res \in AckValues : \E elapsed \in BOOLEAN : RTChildAck(t, res, elapsed)
    \/ \E t \in 1..RTSlots : RTBackoffElapsed(t)
    \/ \E t \in 1..RTSlots : RTResend(t)
    \/ \E t \in 1..RTSlots : RTAck(t)
    \/ \E t \in 1..RTSlots : RTAckCancelled(t)
    \/ \E t \in 1..RTSlots : RTGExit(t)
    \/ RTCloseAsync
    \/ RTCtxCancelled
    \/ RTProducerClose

\* ==================================================================== FanOut

FOMaxTx == 1        \* inbound transactions offered to a FanOut
FOMaxOutputs == 2   \* outputs of a FanOut
FOMaxInFlight == 1  \* largest max-in-flight of a FanOut
FOMaxFails == 1     \* failure acknowledgments the outputs give in a run

FOOutputs == 0..(FOMaxOutputs - 1)
\* Transactions a producer offers at most: one more than FOMaxTx when an output
\* takes nothing from its channel.
FOSlots == FOMaxTx + 1
FONoOutput == -1

FOCommonInit ==
    /\ fo_started = FALSE
    /\ fo_closeRaised = FALSE
    /\ fo_closed = FALSE
    /\ fo_accepted = 0
    /\ fo_inClosed = FALSE
    /\ fo_tx = [t \in 1..FOSlots |-> "none"]
    /\ fo_st = [t \in 1..FOSlots |-> [i \in FOOutputs |-> "none"]]
    /\ fo_hist = [t \in 1..FOSlots |-> [i \in FOOutputs |-> <<>>]]
    /\ fo_acks = [t \in 1..FOSlots |-> <<>>]

FOInit ==
    /\ fo_N \in 1..FOMaxOutputs
    /\ fo_offer = FOMaxTx
    /\ fo_blocked = FONoOutput
    /\ fo_maxInFlight \in 1..FOMaxInFlight
    /\ FOCommonInit

\* A FanOut one of whose outputs never receives from its channel.
FOInitBlocked ==
    /\ fo_N \in 1..FOMaxOutputs
    /\ fo_offer = FOSlots
    /\ fo_blocked \in 0..(fo_N - 1)
    /\ fo_maxInFlight \in 1..FOMaxInFlight
    /\ FOCommonInit

FOIdle ==
    /\ fo_N = 1
    /\ fo_offer = 0
    /\ fo_blocked = FONoOutput
    /\ fo_maxInFlight = 1
    /\ FOCommonInit

FOSends(t, i) == Cardinality({p \in 1..Len(fo_hist[t][i]) : fo_hist[t][i][p].ev = "send"})
FOFails(t, i) == Cardinality({p \in 1..Len(fo_hist[t][i]) : fo_hist[t][i][p].ev = "err"})
FOFailsAll == Cardinality({tip \in (1..FOSlots) \X FOOutputs \X (1..(2 * FOMaxFails + 2)) :
                              /\ tip[3] <= Len(fo_hist[tip[1]][tip[2]])
                              /\ fo_hist[tip[1]][tip[2]][tip[3]].ev = "err"})
FOActive == {t \in 1..FOSlots : fo_tx[t] = "active"}

\* The outstanding set of an inbound transaction is empty.
FOAllAckedMut(t) == \E i \in 0..(fo_N - 1) : fo_st[t][i] = "ok"
FOAllAcked(t) == \A i \in 0..(fo_N - 1) : fo_st[t][i] = "ok"

\* Another inbound transaction may be taken: fewer than max-in-flight are in progress.
FOMayAcceptMut(active, maxInFlight) == TRUE
FOMayAccept(active, maxInFlight) == active < maxInFlight

FOConsume ==
    /\ ~fo_started
    /\ fo_started' = TRUE
    /\ UNCHANGED <<fo_N, fo_offer, fo_blocked, fo_maxInFlight, fo_closeRaised, fo_closed, fo_accepted, fo_inClosed,
                   fo_tx, fo_st, fo_hist, fo_acks>>
    /\ UNCHANGED notFO

\* An inbound transaction is accepted (none once the close signal was raised):
\* its outstanding set is {0..N-1}.
FOReceive ==
    /\ fo_started
    /\ ~fo_closed
    /\ ~fo_closeRaised
    /\ ~fo_inClosed
    /\ fo_accepted < fo_offer
    /\ FOMayAccept(Cardinality(FOActive), fo_maxInFlight)
    /\ LET id == fo_accepted + 1
       IN /\ fo_accepted' = id
          /\ fo_tx' = [fo_tx EXCEPT ![id] = "active"]
          /\ fo_st' = [fo_st EXCEPT ![id] = [i \in FOOutputs |-> IF i < fo_N THEN "tosend" ELSE "none"]]
    /\ UNCHANGED <<fo_N, fo_offer, fo_blocked, fo_maxInFlight, fo_started, fo_closeRaised, fo_closed, fo_inClosed,
                   fo_hist, fo_acks>>
    /\ UNCHANGED notFO

\* A fresh per-output transaction (same payload, fresh ack sink) is put on
\* output i's channel, and output i receives it.
FOSend(t, i) ==
    /\ fo_tx[t] = "active"
    /\ fo_st[t][i] = "tosend"
    /\ i # fo_blocked
    /\ fo_st' = [fo_st EXCEPT ![t][i] = "sent"]
    /\ fo_hist' = [fo_hist EXCEPT ![t][i] =
                     Append(@, [ev |-> "send",
                                tx |-> NewTransaction(t, PayloadOf(t), DownSink(<<t, i, Len(@)>>))])]
    /\ UNCHANGED <<fo_N, fo_offer, fo_blocked, fo_maxInFlight, fo_started, fo_closeRaised, fo_closed, fo_accepted,
                   fo_inClosed, fo_tx, fo_acks>>
    /\ UNCHANGED notFO

\* The outstanding set after output i acknowledged: success removes i, a
\* failure keeps i (and only i) to be sent again.
FOAfterAckMut(row, i, res) ==
    IF res = "ok" THEN [row EXCEPT ![i] = "ok"]
    ELSE [k \in FOOutputs |-> IF k = i THEN "failed" ELSE IF row[k] = "ok" THEN "tosend" ELSE row[k]]
FOAfterAck(row, i, res) ==
    IF res = "ok" THEN [row EXCEPT ![i] = "ok"] ELSE [row EXCEPT ![i] = "failed"]

\* Output i acknowledges its copy of the transaction.
FOOutputAck(t, i, res) ==
    /\ fo_tx[t] = "active"
    /\ fo_st[t][i] = "sent"
    /\ res = "err" => FOFailsAll < FOMaxFails
    /\ fo_st' = [fo_st EXCEPT ![t] = FOAfterAck(@, i, res)]
    /\ fo_hist' = [fo_hist EXCEPT ![t][i] = Append(@, [ev |-> res, tx |-> NoTx])]
    /\ UNCHANGED <<fo_N, fo_offer, fo_blocked, fo_maxInFlight, fo_started, fo_closeRaised, fo_closed, fo_accepted,
                   fo_inClosed, fo_tx, fo_acks>>
    /\ UNCHANGED notFO

\* The retry throttle of a failed output has elapsed.
FOThrottleRetry(t, i) ==
    /\ fo_tx[t] = "active"
    /\ fo_st[t][i] = "failed"
    /\ fo_st' = [fo_st EXCEPT ![t][i] = "tosend"]
    /\ UNCHANGED <<fo_N, fo_offer, fo_blocked, fo_maxInFlight, fo_started, fo_closeRaised, fo_closed, fo_accepted,
                   fo_inClosed, fo_tx, fo_hist, fo_acks>>
    /\ UNCHANGED notFO

\* The outstanding set is empty: the inbound transaction is acknowledged.
FOAckInbound(t) ==
    /\ fo_tx[t] = "active"
    /\ FOAllAcked(t)
    /\ "delivered" \in AckOutcomes(fo_closeRaised)
    /\ fo_acks' = [fo_acks EXCEPT ![t] = Append(@, "ok")]
    /\ fo_tx' = [fo_tx EXCEPT ![t] = "acked"]
    /\ UNCHANGED <<fo_N, fo_offer, fo_blocked, fo_maxInFlight, fo_started, fo_closeRaised, fo_closed, fo_accepted,
                   fo_inClosed, fo_st, fo_hist>>
    /\ UNCHANGED notFO

\* The close signal fired: pending sends and retries are abandoned, no ack is sent.
FOAbandon(t) ==
    /\ fo_tx[t] = "active"
    /\ fo_closeRaised
    /\ fo_tx' = [fo_tx EXCEPT ![t] = "abandoned"]
    /\ UNCHANGED <<fo_N, fo_offer, fo_blocked, fo_maxInFlight, fo_started, fo_closeRaised, fo_closed, fo_accepted,
                   fo_inClosed, fo_st, fo_hist, fo_acks>>
    /\ UNCHANGED notFO

\* Every accepted transaction is finished and no more can arrive: shut down.
FOShutdown ==
    /\ fo_started
    /\ ~fo_closed
    /\ fo_closeRaised \/ fo_inClosed
    /\ FOActive = {}
    /\ fo_closed' = TRUE
    /\ UNCHANGED <<fo_N, fo_offer, fo_blocked, fo_maxInFlight, fo_started, fo_closeRaised, fo_accepted, fo_inClosed,
                   fo_tx, fo_st, fo_hist, fo_acks>>
    /\ UNCHANGED notFO

FOCloseAsync ==
    /\ ~fo_closeRaised
    /\ fo_closeRaised' = TRUE
    /\ UNCHANGED <<fo_N, fo_offer, fo_blocked, fo_maxInFlight, fo_started, fo_closed, fo_accepted, fo_inClosed,
                   fo_tx, fo_st, fo_hist, fo_acks>>
    /\ UNCHANGED notFO

FOProducerClose ==
    /\ ~fo_inClosed
    /\ fo_inClosed' = TRUE
    /\ UNCHANGED <<fo_N, fo_offer, fo_blocked, fo_maxInFlight, fo_started, fo_closeRaised, fo_closed, fo_accepted,
                   fo_tx, fo_st, fo_hist, fo_acks>>
    /\ UNCHANGED notFO

FONext ==
    \/ FOConsume
    \/ FOReceive
    \/ \E t \in 1..FOSlots : \E i \in FOOutputs : FOSend(t, i)
    \/ \E t \in 1..FOSlots : \E i \in FOOutputs : \E res \in AckValues : FOOutputAck(t, i, res)
    \/ \E t \in 1..FOSlots : \E i \in FOOutputs : FOThrottleRetry(t, i)
    \/ \E t \in 1..FOSlots : FOAckInbound(t)
    \/ \E t \in 1..FOSlots : FOAbandon(t)
    \/ FOShutdown
    \/ FOCloseAsync
    \/ FOProducerClose

\* ============================================================== DynamicFanIn

DIMaxLabels == 1    \* labels SetInput is called with
DIMaxCalls == 1     \* SetInput calls made in a run
DIMaxTx == 1        \* transactions the inputs offer in a run

DILabels == 1..DIMaxLabels
DICalls == 1..DIMaxCalls
\* Member 0 is the input given to NewDynamicFanIn, member c the input passed
\* by the c-th SetInput call.
DIMembers == 0..DIMaxCalls
DINoMember == -1

\* A transaction: its payload and the sink its acknowledgment is written to.
\* The k-th transaction input m emits is DITx(m, k).
DINoTx == [payload |-> <<-1, 0>>, sink |-> <<-1, 0>>]
DITx(m, k) == [payload |-> <<m, k>>, sink |-> <<m, k>>]

\* What the forwarder puts on d.transactionChan for the transaction it received.
DIForwardedMut(in) == [in EXCEPT !.sink = <<-1, 0>>]
DIForwarded(in) == in

DIMemberNone == [pc |-> "none", label |-> 0, asked |-> FALSE, srcClosed |-> FALSE,
                 onAdd |-> 0, onRemove |-> 0, fwd |-> 0, in |-> DINoTx]
DICallNone == [pc |-> "none", label |-> 0, input |-> FALSE, late |-> FALSE,
               timedOut |-> FALSE, res |-> "none"]

\* The first statement of the forwarder goroutine: d.onAdd(ident).
DIFwdEntryMut == "recv"
DIFwdEntry == "add"

\* addInput: the forwarder goroutine is launched and the input and its done
\* channel are stored under the label.
DIAddInput(members, m, L) ==
    [members EXCEPT ![m] = [DIMemberNone EXCEPT !.pc = DIFwdEntry, !.label = L]]

\* NewDynamicFanIn with an empty map or with one input under label 1.
DIInit ==
    /\ di_running = 1
    /\ di_closer = "none"
    /\ di_closeChan = FALSE
    /\ di_closedChan = FALSE
    /\ di_txClosed = FALSE
    /\ di_pc = "select"
    /\ di_req = 0
    /\ di_err = "ok"
    /\ di_offered = 0
    /\ di_merged = <<>>
    /\ di_call = [c \in DICalls |-> DICallNone]
    /\ \E initial \in BOOLEAN :
         /\ di_inputs = [L \in DILabels |-> IF initial /\ L = 1 THEN 0 ELSE DINoMember]
         /\ di_m = IF initial THEN DIAddInput([m \in DIMembers |-> DIMemberNone], 0, 1)
                              ELSE [m \in DIMembers |-> DIMemberNone]

DIIdle ==
    /\ di_running = 0
    /\ di_closer = "done"
    /\ di_closeChan = TRUE
    /\ di_closedChan = TRUE
    /\ di_txClosed = TRUE
    /\ di_pc = "done"
    /\ di_req = 0
    /\ di_err = "ok"
    /\ di_offered = 0
    /\ di_merged = <<>>
    /\ di_call = [c \in DICalls |-> [DICallNone EXCEPT !.pc = "off"]]
    /\ di_inputs = [L \in DILabels |-> DINoMember]
    /\ di_m = [m \in DIMembers |-> DIMemberNone]

\* The forwarder of member m has not exited.
DILive(m) == di_m[m].pc \in {"add", "recv", "fwd", "defer"}

\* SetInput: if atomic.LoadInt32(&d.running) != 1 { return ErrTypeClosed }
DISetInputGuardMut(running) == TRUE
DISetInputGuard(running) == running = 1

\* SetInput is called with a label and an input (or nil): the check of running.
DISetInputBegin(c, L, input) ==
    /\ di_call[c].pc = "none"
    /\ \A b \in DICalls : b < c => di_call[b].pc # "none"
    /\ di_call' = [di_call EXCEPT ![c] =
                     IF DISetInputGuard(di_running)
                        THEN [DICallNone EXCEPT !.pc = "send", !.label = L, !.input = input,
                                                !.late = (di_running # 1)]
                        ELSE [DICallNone EXCEPT !.pc = "ret", !.label = L, !.input = input,
                                                !.late = (di_running # 1), !.res = "closed"]]
    /\ UNCHANGED <<di_running, di_closer, di_closeChan, di_closedChan, di_txClosed, di_pc,
                   di_req, di_err, di_offered, di_inputs, di_m>>
    /\ UNCHANGED di_merged
    /\ UNCHANGED notDI

\* SetInput: case d.newInputChan <- wrappedInput{...}, received by managerLoop,
\* which removes the old input under the name if there is one (removeInput
\* calls CloseAsync on it and waits) and otherwise adds the new one.
DISetInputSend(c) ==
    /\ di_call[c].pc = "send"
    /\ di_pc = "select"
    /\ di_req' = c
    /\ di_call' = [di_call EXCEPT ![c].pc = "wait"]
    /\ LET L == di_call[c].label
       IN IF di_inputs[L] # DINoMember
             THEN /\ di_m' = [di_m EXCEPT ![di_inputs[L]].asked = TRUE]
                  /\ di_pc' = "removing"
                  /\ UNCHANGED <<di_inputs, di_err>>
             ELSE /\ di_err' = "ok"
                  /\ di_pc' = "reply"
                  /\ IF di_call[c].input
                        THEN /\ di_m' = DIAddInput(di_m, c, L)
                             /\ di_inputs' = [di_inputs EXCEPT ![L] = c]
                        ELSE UNCHANGED <<di_m, di_inputs>>
    /\ UNCHANGED <<di_running, di_closer, di_closeChan, di_closedChan, di_txClosed, di_offered>>
    /\ UNCHANGED di_merged
    /\ UNCHANGED notDI

\* SetInput: case <-d.closeChan: return ErrTypeClosed
DISetInputClosed(c) ==
    /\ di_call[c].pc = "send"
    /\ di_closeChan
    /\ di_call' = [di_call EXCEPT ![c].pc = "ret", ![c].res = "closed"]
    /\ UNCHANGED <<di_running, di_closer, di_closeChan, di_closedChan, di_txClosed, di_pc,
                   di_req, di_err, di_offered, di_inputs, di_m>>
    /\ UNCHANGED di_merged
    /\ UNCHANGED notDI

\* Whether managerLoop goes on to addInput after removeInput returned err.
DIAddAfterRemoveMut(err, input) == input
DIAddAfterRemove(err, input) == err = "ok" /\ input

\* removeInput: case <-d.inputClosedChans[ident] can be taken, which is when
\* the forwarder of the input has closed its done channel.
DIInputClosedMut(members, m) == TRUE
DIInputClosed(members, m) == members[m].pc = "done"

\* removeInput: case <-d.inputClosedChans[ident]: the entries are deleted;
\* managerLoop then adds the new input if there is one.
DIRemoveDone ==
    /\ di_pc = "removing"
    /\ LET c == di_req
           L == di_call[c].label
       IN /\ DIInputClosed(di_m, di_inputs[L])
          /\ di_err' = "ok"
          /\ IF DIAddAfterRemove("ok", di_call[c].input)
                THEN /\ di_m' = DIAddInput(di_m, c, L)
                     /\ di_inputs' = [di_inputs EXCEPT ![L] = c]
                ELSE /\ di_inputs' = [di_inputs EXCEPT ![L] = DINoMember]
                     /\ UNCHANGED di_m
    /\ di_pc' = "reply"
    /\ UNCHANGED <<di_running, di_closer, di_closeChan, di_closedChan, di_txClosed,
                   di_req, di_offered, di_call>>
    /\ UNCHANGED di_merged
    /\ UNCHANGED notDI

\* removeInput: case <-time.After(timeout): return ErrTimeout; the map is left
\* as it is.
DIRemoveTimeout ==
    /\ di_pc = "removing"
    /\ LET c == di_req
           L == di_call[c].label
       IN /\ di_err' = "timeout"
          /\ di_call' = [di_call EXCEPT ![c].timedOut = TRUE]
          /\ IF DIAddAfterRemove("timeout", di_call[c].input)
                THEN /\ di_m' = DIAddInput(di_m, c, L)
                     /\ di_inputs' = [di_inputs EXCEPT ![L] = c]
                ELSE UNCHANGED <<di_m, di_inputs>>
    /\ di_pc' = "reply"
    /\ UNCHANGED <<di_running, di_closer, di_closeChan, di_closedChan, di_txClosed,
                   di_req, di_offered>>
    /\ UNCHANGED di_merged
    /\ UNCHANGED notDI

\* managerLoop: case wrappedInput.ResChan <- err, received by SetInput, which
\* returns it.
DIReply ==
    /\ di_pc = "reply"
    /\ di_call' = [di_call EXCEPT ![di_req].pc = "ret", ![di_req].res = di_err]
    /\ di_req' = 0
    /\ di_pc' = "select"
    /\ UNCHANGED <<di_running, di_closer, di_closeChan, di_closedChan, di_txClosed,
                   di_err, di_offered, di_inputs, di_m>>
    /\ UNCHANGED di_merged
    /\ UNCHANGED notDI

\* managerLoop: case <-d.closeChan: close(wrappedInput.ResChan); return.
\* SetInput's receive from the closed channel yields the nil error.
DIReplyClosed ==
    /\ di_pc = "reply"
    /\ di_closeChan
    /\ di_call' = [di_call EXCEPT ![di_req].pc = "ret", ![di_req].res = "ok"]
    /\ di_req' = 0
    /\ di_pc' = "defer"
    /\ UNCHANGED <<di_running, di_closer, di_closeChan, di_closedChan, di_txClosed,
                   di_err, di_offered, di_inputs, di_m>>
    /\ UNCHANGED di_merged
    /\ UNCHANGED notDI

\* managerLoop: case <-d.closeChan: return
DILoopCloseSeen ==
    /\ di_pc = "select"
    /\ di_closeChan
    /\ di_pc' = "defer"
    /\ UNCHANGED <<di_running, di_closer, di_closeChan, di_closedChan, di_txClosed,
                   di_req, di_err, di_offered, di_call, di_inputs, di_m>>
    /\ UNCHANGED di_merged
    /\ UNCHANGED notDI

\* managerLoop, deferred: CloseAsync is called on every input of the map.
DIDeferCloseInputs ==
    /\ di_pc = "defer"
    /\ di_m' = [m \in DIMembers |->
                  IF \E L \in DILabels : di_inputs[L] = m
                     THEN [di_m[m] EXCEPT !.asked = TRUE] ELSE di_m[m]]
    /\ di_pc' = "drain"
    /\ UNCHANGED <<di_running, di_closer, di_closeChan, di_closedChan, di_txClosed,
                   di_req, di_err, di_offered, di_call, di_inputs>>
    /\ UNCHANGED di_merged
    /\ UNCHANGED notDI

\* managerLoop, deferred: removeInput(key, time.Second) is repeated until it
\* succeeds, which is when the input's done channel is closed.
DIDrainRemove(L) ==
    /\ di_pc = "drain"
    /\ di_inputs[L] # DINoMember
    /\ DIInputClosed(di_m, di_inputs[L])
    /\ di_inputs' = [di_inputs EXCEPT ![L] = DINoMember]
    /\ UNCHANGED <<di_running, di_closer, di_closeChan, di_closedChan, di_txClosed, di_pc,
                   di_req, di_err, di_offered, di_call, di_m>>
    /\ UNCHANGED di_merged
    /\ UNCHANGED notDI

\* managerLoop, deferred: close(d.transactionChan); close(d.closedChan)
DIDeferClose ==
    /\ di_pc = "drain"
    /\ \A L \in DILabels : di_inputs[L] = DINoMember
    /\ di_txClosed' = TRUE
    /\ di_closedChan' = TRUE
    /\ di_pc' = "done"
    /\ UNCHANGED <<di_running, di_closer, di_closeChan, di_req, di_err, di_offered,
                   di_call, di_inputs, di_m>>
    /\ UNCHANGED di_merged
    /\ UNCHANGED notDI

\* CloseAsync: atomic.CompareAndSwapInt32(&d.running, 1, 0) succeeds
DICloseAsyncSwap ==
    /\ di_running = 1
    /\ di_running' = 0
    /\ di_closer' = "swapped"
    /\ UNCHANGED <<di_closeChan, di_closedChan, di_txClosed, di_pc, di_req, di_err,
                   di_offered, di_call, di_inputs, di_m>>
    /\ UNCHANGED di_merged
    /\ UNCHANGED notDI

\* CloseAsync: close(d.closeChan)
DICloseAsyncClose ==
    /\ di_closer = "swapped"
    /\ di_closeChan' = TRUE
    /\ di_closer' = "done"
    /\ UNCHANGED <<di_running, di_closedChan, di_txClosed, di_pc, di_req, di_err,
                   di_offered, di_call, di_inputs, di_m>>
    /\ UNCHANGED di_merged
    /\ UNCHANGED notDI

\* forwarder: d.onAdd(ident)
DIFwdOnAdd(m) ==
    /\ di_m[m].pc = "add"
    /\ di_m' = [di_m EXCEPT ![m].onAdd = @ + 1, ![m].pc = "recv"]
    /\ UNCHANGED <<di_running, di_closer, di_closeChan, di_closedChan, di_txClosed, di_pc,
                   di_req, di_err, di_offered, di_call, di_inputs>>
    /\ UNCHANGED di_merged
    /\ UNCHANGED notDI

\* forwarder: in, open := <-input.TransactionChan() with open = true
DIFwdReceive(m) ==
    /\ di_m[m].pc = "recv"
    /\ ~di_m[m].srcClosed
    /\ di_offered < DIMaxTx
    /\ di_offered' = di_offered + 1
    /\ di_m' = [di_m EXCEPT ![m].pc = "fwd", ![m].in = DITx(m, di_m[m].fwd + 1)]
    /\ UNCHANGED <<di_running, di_closer, di_closeChan, di_closedChan, di_txClosed, di_pc,
                   di_req, di_err, di_call, di_inputs>>
    /\ UNCHANGED di_merged
    /\ UNCHANGED notDI

\* forwarder: open = false: return
DIFwdReceiveClosed(m) ==
    /\ di_m[m].pc = "recv"
    /\ di_m[m].srcClosed
    /\ di_m' = [di_m EXCEPT ![m].pc = "defer"]
    /\ UNCHANGED <<di_running, di_closer, di_closeChan, di_closedChan, di_txClosed, di_pc,
                   di_req, di_err, di_offered, di_call, di_inputs>>
    /\ UNCHANGED di_merged
    /\ UNCHANGED notDI

\* forwarder: d.transactionChan <- in, received by the consumer of the broker
DIFwdSend(m) ==
    /\ di_m[m].pc = "fwd"
    /\ ~di_txClosed
    /\ di_merged' = Append(di_merged, DIForwarded(di_m[m].in))
    /\ di_m' = [di_m EXCEPT ![m].fwd = @ + 1, ![m].pc = "recv", ![m].in = DINoTx]
    /\ UNCHANGED <<di_running, di_closer, di_closeChan, di_closedChan, di_txClosed, di_pc,
                   di_req, di_err, di_offered, di_call, di_inputs>>
    /\ UNCHANGED notDI

\* forwarder, deferred: d.onRemove(ident); close(cChan)
DIFwdDefer(m) ==
    /\ di_m[m].pc = "defer"
    /\ di_m' = [di_m EXCEPT ![m].onRemove = @ + 1, ![m].pc = "done"]
    /\ UNCHANGED <<di_running, di_closer, di_closeChan, di_closedChan, di_txClosed, di_pc,
                   di_req, di_err, di_offered, di_call, di_inputs>>
    /\ UNCHANGED di_merged
    /\ UNCHANGED notDI

\* An input closes its transaction channel, asked to or of its own accord.
DIInputCloses(m) ==
    /\ DILive(m)
    /\ ~di_m[m].srcClosed
    /\ di_m' = [di_m EXCEPT ![m].srcClosed = TRUE]
    /\ UNCHANGED <<di_running, di_closer, di_closeChan, di_closedChan, di_txClosed, di_pc,
                   di_req, di_err, di_offered, di_call, di_inputs>>
    /\ UNCHANGED di_merged
    /\ UNCHANGED notDI

DINext ==
    \/ \E c \in DICalls : \E L \in DILabels : \E input \in BOOLEAN : DISetInputBegin(c, L, input)
    \/ \E c \in DICalls : DISetInputSend(c)
    \/ \E c \in DICalls : DISetInputClosed(c)
    \/ DIRemoveDone
    \/ DIRemoveTimeout
    \/ DIReply
    \/ DIReplyClosed
    \/ DILoopCloseSeen
    \/ DIDeferCloseInputs
    \/ \E L \in DILabels : DIDrainRemove(L)
    \/ DIDeferClose
    \/ DICloseAsyncSwap
    \/ DICloseAsyncClose
    \/ \E m \in DIMembers : DIFwdOnAdd(m)
    \/ \E m \in DIMembers : DIFwdReceive(m)
    \/ \E m \in DIMembers : DIFwdReceiveClosed(m)
    \/ \E m \in DIMembers : DIFwdSend(m)
    \/ \E m \in DIMembers : DIFwdDefer(m)
    \/ \E m \in DIMembers : DIInputCloses(m)

\* ============================================================= DynamicFanOut
\* FanOut over a label-indexed map of outputs that SetOutput changes at run
\* time.  The broker's loop serves the SetOutput requests and accepts the
\* inbound transactions, each of which is sent to a snapshot of the map.

DFMaxCalls == 1     \* SetOutput calls made in a run
DFMaxTx == 1        \* inbound transactions offered to a DynamicFanOut
DFMaxFails == 1     \* failure acknowledgments the outputs give in a run

\* The labels outputs are registered under, and how many there are.
DFLabels == {1, 2}
DFNumLabels == Cardinality(DFLabels)
DFCalls == 1..DFMaxCalls
\* Member L is the output given at construction under label L, member
\* DFNumLabels + c the output passed by the c-th SetOutput call.
DFMembers == 1..(DFNumLabels + DFMaxCalls)
DFNoMember == -1

DFMemberNone == [label |-> 0, st |-> "none", asked |-> FALSE, done |-> FALSE,
                 onAdd |-> 0, onRemove |-> 0, chanClosed |-> FALSE,
                 addedAt |-> -1, removedAt |-> -1]
DFCallNone == [pc |-> "none", label |-> 0, output |-> FALSE, old |-> -1, res |-> "none"]

\* An output is added under a label: it is stored and the add hook is invoked.
DFAddOutput(members, m, L) ==
    [members EXCEPT ![m] = [DFMemberNone EXCEPT !.label = L, !.st = "running", !.onAdd = 1]]

\* An output has been removed: its channel is closed and the remove hook is invoked.
DFRemoveOutput(members, m) ==
    [members EXCEPT ![m].st = "removed", ![m].chanClosed = TRUE, ![m].onRemove = @ + 1]

\* What shutting the broker down does to an output still in the map: its
\* channel is closed; no hook is invoked.
DFCloseOutputMut(mem) == [mem EXCEPT !.st = "shutdown", !.chanClosed = TRUE, !.onRemove = @ + 1]
DFCloseOutput(mem) == [mem EXCEPT !.st = "shutdown", !.chanClosed = TRUE]

\* The snapshot of the map taken for an inbound transaction.
DFSnapshotMut(outputs, members) == {m \in DFMembers : members[m].onAdd = 1}
DFSnapshot(outputs, members) == {m \in DFMembers : \E L \in DFLabels : outputs[L] = m}

\* The broker takes a transaction from the inbound channel only while the map
\* holds at least one output: with an empty map the producer's send blocks.
DFHasOutputsMut(outputs, members) == TRUE
DFHasOutputs(outputs, members) == DFSnapshot(outputs, members) # {}

DFCommonInit ==
    /\ df_started = FALSE
    /\ df_closeRaised = FALSE
    /\ df_closed = FALSE
    /\ df_inClosed = FALSE
    /\ df_accepted = 0
    /\ df_pc = "run"
    /\ df_req = 0
    /\ df_err = "ok"
    /\ df_fails = 0
    /\ df_tx = [t \in 1..DFMaxTx |-> "none"]
    /\ df_st = [t \in 1..DFMaxTx |-> [m \in DFMembers |-> "none"]]
    /\ df_acks = [t \in 1..DFMaxTx |-> <<>>]

\* NewDynamicFanOut with any initial map; the max in flight stays at the
\* constructor's value of one, so the transactions of a run follow one another.
DFInit ==
    /\ df_maxInFlight = 1
    /\ df_call = [c \in DFCalls |-> DFCallNone]
    /\ \E initial \in SUBSET DFLabels :
         /\ df_outputs = [L \in DFLabels |-> IF L \in initial THEN L ELSE DFNoMember]
         /\ df_mem = [m \in DFMembers |->
                        IF m \in initial
                           THEN [DFMemberNone EXCEPT !.label = m, !.st = "running",
                                                     !.onAdd = 1, !.addedAt = 0]
                           ELSE DFMemberNone]
    /\ DFCommonInit

DFIdle ==
    /\ df_maxInFlight = 1
    /\ df_call = [c \in DFCalls |-> [DFCallNone EXCEPT !.pc = "off"]]
    /\ df_outputs = [L \in DFLabels |-> DFNoMember]
    /\ df_mem = [m \in DFMembers |-> DFMemberNone]
    /\ df_started = TRUE
    /\ df_closeRaised = TRUE
    /\ df_closed = TRUE
    /\ df_inClosed = TRUE
    /\ df_accepted = 0
    /\ df_pc = "done"
    /\ df_req = 0
    /\ df_err = "ok"
    /\ df_fails = 0
    /\ df_tx = [t \in 1..DFMaxTx |-> "none"]
    /\ df_st = [t \in 1..DFMaxTx |-> [m \in DFMembers |-> "none"]]
    /\ df_acks = [t \in 1..DFMaxTx |-> <<>>]

DFActive == {t \in 1..DFMaxTx : df_tx[t] = "active"}

\* The outstanding set of an inbound transaction is empty.
DFAllAckedMut(t) == \E m \in DFMembers : df_st[t][m] = "ok"
DFAllAcked(t) == \A m \in DFMembers : df_st[t][m] \in {"none", "ok"}

DFConsume ==
    /\ ~df_started
    /\ df_started' = TRUE
    /\ UNCHANGED <<df_maxInFlight, df_closeRaised, df_closed, df_inClosed, df_accepted, df_pc,
                   df_req, df_err, df_fails, df_call, df_outputs, df_mem, df_tx, df_st, df_acks>>
    /\ UNCHANGED notDF

\* SetOutput is called (the calls of a run are made one after the other): on a
\* draining broker it returns the closed error.
DFSetOutputBegin(c, L, output) ==
    /\ df_call[c].pc = "none"
    /\ \A b \in DFCalls : b < c => df_call[b].pc = "ret"
    /\ df_call' = [df_call EXCEPT ![c] =
                     IF df_closeRaised
                        THEN [DFCallNone EXCEPT !.pc = "ret", !.res = "closed"]
                        ELSE [DFCallNone EXCEPT !.pc = "send", !.label = L, !.output = output]]
    /\ UNCHANGED <<df_maxInFlight, df_started, df_closeRaised, df_closed, df_inClosed,
                   df_accepted, df_pc, df_req, df_err, df_fails, df_outputs, df_mem, df_tx,
                   df_st, df_acks>>
    /\ UNCHANGED notDF

\* The loop takes the request: an output under the label is sent a
\* close-at-leisure and waited for; with none there, a non-nil output is added.
DFSetOutputSend(c) ==
    /\ df_call[c].pc = "send"
    /\ df_started /\ df_pc = "run" /\ ~df_closeRaised
    /\ df_req' = c
    /\ df_call' = [df_call EXCEPT ![c].pc = "wait", ![c].old = df_outputs[df_call[c].label]]
    /\ LET L == df_call[c].label
           m == DFNumLabels + c
       IN IF df_outputs[L] # DFNoMember
             THEN /\ df_mem' = [df_mem EXCEPT ![df_outputs[L]].asked = TRUE]
                  /\ df_pc' = "removing"
                  /\ UNCHANGED <<df_outputs, df_err>>
             ELSE /\ df_err' = "ok"
                  /\ df_pc' = "reply"
                  /\ IF df_call[c].output
                        THEN /\ df_mem' = DFAddOutput(df_mem, m, L)
                             /\ df_outputs' = [df_outputs EXCEPT ![L] = m]
                        ELSE UNCHANGED <<df_mem, df_outputs>>
    /\ UNCHANGED <<df_maxInFlight, df_started, df_closeRaised, df_closed, df_inClosed,
                   df_accepted, df_fails, df_tx, df_st, df_acks>>
    /\ UNCHANGED notDF

\* SetOutput on a broker that started draining before the loop took the request.
DFSetOutputClosed(c) ==
    /\ df_call[c].pc = "send"
    /\ df_closeRaised \/ df_closed
    /\ df_call' = [df_call EXCEPT ![c] = [DFCallNone EXCEPT !.pc = "ret", !.res = "closed"]]
    /\ UNCHANGED <<df_maxInFlight, df_started, df_closeRaised, df_closed, df_inClosed,
                   df_accepted, df_pc, df_req, df_err, df_fails, df_outputs, df_mem, df_tx,
                   df_st, df_acks>>
    /\ UNCHANGED notDF

\* The output under the label completed within the timeout: it is removed, what
\* is still outstanding for it is cancelled, and a non-nil output is added.
DFRemoveDone ==
    /\ df_pc = "removing"
    /\ LET c == df_req
           L == df_call[c].label
           old == df_outputs[L]
           m == DFNumLabels + c
           removed == DFRemoveOutput(df_mem, old)
       IN /\ df_mem[old].done
          /\ df_st' = [t \in 1..DFMaxTx |-> [k \in DFMembers |->
                         IF k = old /\ df_st[t][k] \in {"tosend", "sent", "failed"}
                            THEN "cancelled" ELSE df_st[t][k]]]
          /\ IF df_call[c].output
                THEN /\ df_mem' = DFAddOutput(removed, m, L)
                     /\ df_outputs' = [df_outputs EXCEPT ![L] = m]
                ELSE /\ df_mem' = removed
                     /\ df_outputs' = [df_outputs EXCEPT ![L] = DFNoMember]
    /\ df_err' = "ok"
    /\ df_pc' = "reply"
    /\ UNCHANGED <<df_maxInFlight, df_started, df_closeRaised, df_closed, df_inClosed,
                   df_accepted, df_req, df_fails, df_call, df_tx, df_acks>>
    /\ UNCHANGED notDF

\* The output did not complete within the timeout: the label is kept and the
\* call fails.
DFRemoveTimeout ==
    /\ df_pc = "removing"
    /\ df_err' = "timeout"
    /\ df_pc' = "reply"
    /\ UNCHANGED <<df_maxInFlight, df_started, df_closeRaised, df_closed, df_inClosed,
                   df_accepted, df_req, df_fails, df_call, df_outputs, df_mem, df_tx, df_st,
                   df_acks>>
    /\ UNCHANGED notDF

\* SetOutput returns the result; on success the members it added and removed
\* are marked with the number of transactions accepted before the return.
DFReply ==
    /\ df_pc = "reply"
    /\ LET c == df_req
           m == DFNumLabels + c
           old == df_call[c].old
       IN /\ df_call' = [df_call EXCEPT ![c] =
                           IF df_err = "ok" THEN [df_call[c] EXCEPT !.pc = "ret", !.res = "ok"]
                           ELSE [DFCallNone EXCEPT !.pc = "ret", !.res = df_err]]
          /\ df_mem' = [k \in DFMembers |->
                          IF df_err # "ok" THEN df_mem[k]
                          ELSE IF k = m /\ df_call[c].output
                                  THEN [df_mem[k] EXCEPT !.addedAt = df_accepted]
                          ELSE IF k = old THEN [df_mem[k] EXCEPT !.removedAt = df_accepted]
                          ELSE df_mem[k]]
    /\ df_req' = 0
    /\ df_err' = "ok"
    /\ df_pc' = "run"
    /\ UNCHANGED <<df_maxInFlight, df_started, df_closeRaised, df_closed, df_inClosed,
                   df_accepted, df_fails, df_outputs, df_tx, df_st, df_acks>>
    /\ UNCHANGED notDF

\* An output that was sent a close-at-leisure completes.
DFOutputCompletes(m) ==
    /\ df_mem[m].asked
    /\ ~df_mem[m].done
    /\ df_mem' = [df_mem EXCEPT ![m].done = TRUE]
    /\ UNCHANGED <<df_maxInFlight, df_started, df_closeRaised, df_closed, df_inClosed,
                   df_accepted, df_pc, df_req, df_err, df_fails, df_call, df_outputs, df_tx,
                   df_st, df_acks>>
    /\ UNCHANGED notDF

\* The loop accepts an inbound transaction (none while the map is empty or
\* once the close signal was raised): its outstanding set is the snapshot.
DFReceive ==
    /\ df_started /\ df_pc = "run"
    /\ ~df_closed /\ ~df_closeRaised /\ ~df_inClosed
    /\ df_accepted < DFMaxTx
    /\ Cardinality(DFActive) < df_maxInFlight
    /\ DFHasOutputs(df_outputs, df_mem)
    /\ LET id == df_accepted + 1
       IN /\ df_accepted' = id
          /\ df_tx' = [df_tx EXCEPT ![id] = "active"]
          /\ df_st' = [df_st EXCEPT ![id] = [m \in DFMembers |->
                          IF m \in DFSnapshot(df_outputs, df_mem) THEN "tosend" ELSE "none"]]
    /\ UNCHANGED <<df_maxInFlight, df_started, df_closeRaised, df_closed, df_inClosed, df_pc,
                   df_req, df_err, df_fails, df_call, df_outputs, df_mem, df_acks>>
    /\ UNCHANGED notDF

\* A fresh per-output transaction is put on the channel of member m, which
\* receives it.
DFSend(t, m) ==
    /\ df_tx[t] = "active"
    /\ df_st[t][m] = "tosend"
    /\ ~df_mem[m].done
    /\ df_st' = [df_st EXCEPT ![t][m] = "sent"]
    /\ UNCHANGED <<df_maxInFlight, df_started, df_closeRaised, df_closed, df_inClosed,
                   df_accepted, df_pc, df_req, df_err, df_fails, df_call, df_outputs, df_mem,
                   df_tx, df_acks>>
    /\ UNCHANGED notDF

\* Member m acknowledges its copy: success takes it out of the outstanding
\* set, a failure keeps it to be sent again.
DFOutputAck(t, m, res) ==
    /\ df_tx[t] = "active"
    /\ df_st[t][m] = "sent"
    /\ ~df_mem[m].done
    /\ res = "err" => df_fails < DFMaxFails
    /\ df_fails' = IF res = "err" THEN df_fails + 1 ELSE df_fails
    /\ df_st' = [df_st EXCEPT ![t][m] = IF res = "ok" THEN "ok" ELSE "failed"]
    /\ UNCHANGED <<df_maxInFlight, df_started, df_closeRaised, df_closed, df_inClosed,
                   df_accepted, df_pc, df_req, df_err, df_call, df_outputs, df_mem, df_tx,
                   df_acks>>
    /\ UNCHANGED notDF

\* The retry throttle of a failed member has elapsed.
DFThrottleRetry(t, m) ==
    /\ df_tx[t] = "active"
    /\ df_st[t][m] = "failed"
    /\ df_st' = [df_st EXCEPT ![t][m] = "tosend"]
    /\ UNCHANGED <<df_maxInFlight, df_started, df_closeRaised, df_closed, df_inClosed,
                   df_accepted, df_pc, df_req, df_err, df_fails, df_call, df_outputs, df_mem,
                   df_tx, df_acks>>
    /\ UNCHANGED notDF

\* The outstanding set is empty: the inbound transaction is acknowledged.
DFAckInbound(t) ==
    /\ df_tx[t] = "active"
    /\ DFAllAcked(t)
    /\ "delivered" \in AckOutcomes(df_closeRaised)
    /\ df_acks' = [df_acks EXCEPT ![t] = Append(@, "ok")]
    /\ df_tx' = [df_tx EXCEPT ![t] = "acked"]
    /\ UNCHANGED <<df_maxInFlight, df_started, df_closeRaised, df_closed, df_inClosed,
                   df_accepted, df_pc, df_req, df_err, df_fails, df_call, df_outputs, df_mem,
                   df_st>>
    /\ UNCHANGED notDF

\* The close signal fired: pending sends and retries are abandoned, no ack is sent.
DFAbandon(t) ==
    /\ df_tx[t] = "active"
    /\ df_closeRaised
    /\ df_tx' = [df_tx EXCEPT ![t] = "abandoned"]
    /\ df_st' = [df_st EXCEPT ![t] = [m \in DFMembers |->
                    IF df_st[t][m] = "none" THEN "none" ELSE "cancelled"]]
    /\ UNCHANGED <<df_maxInFlight, df_started, df_closeRaised, df_closed, df_inClosed,
                   df_accepted, df_pc, df_req, df_err, df_fails, df_call, df_outputs, df_mem,
                   df_acks>>
    /\ UNCHANGED notDF

\* Every accepted transaction is finished and no more can arrive: the channels
\* of the outputs in the map are closed and the broker has shut down.
DFShutdown ==
    /\ df_started /\ df_pc = "run" /\ ~df_closed
    /\ df_closeRaised \/ df_inClosed
    /\ DFActive = {}
    /\ df_mem' = [m \in DFMembers |->
                    IF m \in DFSnapshot(df_outputs, df_mem) THEN DFCloseOutput(df_mem[m])
                                                            ELSE df_mem[m]]
    /\ df_closed' = TRUE
    /\ df_pc' = "done"
    /\ UNCHANGED <<df_maxInFlight, df_started, df_closeRaised, df_inClosed, df_accepted,
                   df_req, df_err, df_fails, df_call, df_outputs, df_tx, df_st, df_acks>>
    /\ UNCHANGED notDF

DFCloseAsync ==
    /\ ~df_closeRaised
    /\ df_closeRaised' = TRUE
    /\ UNCHANGED <<df_maxInFlight, df_started, df_closed, df_inClosed, df_accepted, df_pc,
                   df_req, df_err, df_fails, df_call, df_outputs, df_mem, df_tx, df_st, df_acks>>
    /\ UNCHANGED notDF

\* The loop finds the inbound channel closed by the producer.
DFProducerClose ==
    /\ df_started /\ df_pc = "run"
    /\ ~df_closed /\ ~df_closeRaised /\ ~df_inClosed
    /\ df_inClosed' = TRUE
    /\ UNCHANGED <<df_maxInFlight, df_started, df_closeRaised, df_closed, df_accepted, df_pc,
                   df_req, df_err, df_fails, df_call, df_outputs, df_mem, df_tx, df_st, df_acks>>
    /\ UNCHANGED notDF

DFNext ==
    \/ DFConsume
    \/ \E c \in DFCalls : \E L \in DFLabels : \E output \in BOOLEAN : DFSetOutputBegin(c, L, output)
    \/ \E c \in DFCalls : DFSetOutputSend(c)
    \/ \E c \in DFCalls : DFSetOutputClosed(c)
    \/ DFRemoveDone
    \/ DFRemoveTimeout
    \/ DFReply
    \/ \E m \in DFMembers : DFOutputCompletes(m)
    \/ DFReceive
    \/ \E t \in 1..DFMaxTx : \E m \in DFMembers : DFSend(t, m)
    \/ \E t \in 1..DFMaxTx : \E m \in DFMembers : \E res \in AckValues : DFOutputAck(t, m, res)
    \/ \E t \in 1..DFMaxTx : \E m \in DFMembers : DFThrottleRetry(t, m)
    \/ \E t \in 1..DFMaxTx : DFAckInbound(t)
    \/ \E t \in 1..DFMaxTx : DFAbandon(t)
    \/ DFShutdown
    \/ DFCloseAsync
    \/ DFProducerClose

\* ==================================================================== Switch
\* Routed fan-out: the cases are evaluated in order, the first matching case
\* routes the batch, and a case that declares continue lets the next cases be
\* evaluated too.  The batches of a run match the predicate of every case.

SWMaxTx == 1        \* inbound transactions offered to a Switch
SWMaxCases == 2     \* cases of a Switch
SWMaxInFlight == 1  \* largest max-in-flight of a Switch
SWMaxFails == 1     \* failure acknowledgments the outputs give in a run

SWCases == 0..(SWMaxCases - 1)
SWSlots == SWMaxTx + 1
SWNoOutput == -1

\* The cases a batch that matches every predicate is routed to.
SWTargets(n, continue) == {i \in 0..(n - 1) : \A j \in 0..(i - 1) : continue[j]}

SWCommonInit ==
    /\ sw_started = FALSE
    /\ sw_closeRaised = FALSE
    /\ sw_closed = FALSE
    /\ sw_inClosed = FALSE
    /\ sw_accepted = 0
    /\ sw_fails = 0
    /\ sw_tx = [t \in 1..SWSlots |-> "none"]
    /\ sw_st = [t \in 1..SWSlots |-> [i \in SWCases |-> "none"]]
    /\ sw_acks = [t \in 1..SWSlots |-> <<>>]

SWInit ==
    /\ sw_N \in 1..SWMaxCases
    /\ sw_continue \in [SWCases -> BOOLEAN]
    /\ \A i \in SWCases : i >= sw_N => ~sw_continue[i]
    /\ sw_retry \in BOOLEAN
    /\ sw_offer = SWMaxTx
    /\ sw_blocked = SWNoOutput
    /\ sw_maxInFlight \in 1..SWMaxInFlight
    /\ SWCommonInit

\* A Switch whose cases all declare continue, one of whose outputs never
\* receives from its channel.
SWInitBlocked ==
    /\ sw_N \in 1..SWMaxCases
    /\ sw_continue = [i \in SWCases |-> i < sw_N]
    /\ sw_retry \in BOOLEAN
    /\ sw_offer = SWSlots
    /\ sw_blocked \in 0..(sw_N - 1)
    /\ sw_maxInFlight \in 1..SWMaxInFlight
    /\ SWCommonInit

SWIdle ==
    /\ sw_N = 0
    /\ sw_continue = [i \in SWCases |-> FALSE]
    /\ sw_retry = FALSE
    /\ sw_offer = 0
    /\ sw_blocked = SWNoOutput
    /\ sw_maxInFlight = 1
    /\ sw_started = TRUE
    /\ sw_closeRaised = TRUE
    /\ sw_closed = TRUE
    /\ sw_inClosed = TRUE
    /\ sw_accepted = 0
    /\ sw_fails = 0
    /\ sw_tx = [t \in 1..SWSlots |-> "none"]
    /\ sw_st = [t \in 1..SWSlots |-> [i \in SWCases |-> "none"]]
    /\ sw_acks = [t \in 1..SWSlots |-> <<>>]

SWActive == {t \in 1..SWSlots : sw_tx[t] = "active"}

\* Another inbound transaction may be taken: fewer than max-in-flight are in progress.
SWMayAcceptMut(active, maxInFlight) == TRUE
SWMayAccept(active, maxInFlight) == active < maxInFlight

\* The aggregate of the acknowledgments of the cases used: success iff every
\* sub-batch succeeded.
SWAggregate(row) == IF \A i \in SWCases : row[i] \in {"none", "ok"} THEN "ok" ELSE "err"

\* Every case used has given its final acknowledgment: a success, or without
\* retry_until_success a failure.
SWAllAckedMut(row, retry) == \A i \in SWCases : row[i] \in {"none", "ok", "failed"}
SWAllAcked(row, retry) ==
    \A i \in SWCases : row[i] \in (IF retry THEN {"none", "ok"} ELSE {"none", "ok", "failed"})

SWConsume ==
    /\ ~sw_started
    /\ sw_started' = TRUE
    /\ UNCHANGED <<sw_N, sw_continue, sw_retry, sw_offer, sw_blocked, sw_maxInFlight,
                   sw_closeRaised, sw_closed, sw_inClosed, sw_accepted, sw_fails, sw_tx, sw_st, sw_acks>>
    /\ UNCHANGED notSW

\* An inbound transaction is accepted and routed.
SWReceive ==
    /\ sw_started
    /\ ~sw_closed /\ ~sw_closeRaised /\ ~sw_inClosed
    /\ sw_accepted < sw_offer
    /\ SWMayAccept(Cardinality(SWActive), sw_maxInFlight)
    /\ LET id == sw_accepted + 1
       IN /\ sw_accepted' = id
          /\ sw_tx' = [sw_tx EXCEPT ![id] = "active"]
          /\ sw_st' = [sw_st EXCEPT ![id] = [i \in SWCases |->
                          IF i \in SWTargets(sw_N, sw_continue) THEN "tosend" ELSE "none"]]
    /\ UNCHANGED <<sw_N, sw_continue, sw_retry, sw_offer, sw_blocked, sw_maxInFlight,
                   sw_started, sw_closeRaised, sw_closed, sw_inClosed, sw_fails, sw_acks>>
    /\ UNCHANGED notSW

\* The sub-batch of case i is put on the channel of its output, which receives it.
SWSend(t, i) ==
    /\ sw_tx[t] = "active"
    /\ sw_st[t][i] = "tosend"
    /\ i # sw_blocked
    /\ sw_st' = [sw_st EXCEPT ![t][i] = "sent"]
    /\ UNCHANGED <<sw_N, sw_continue, sw_retry, sw_offer, sw_blocked, sw_maxInFlight,
                   sw_started, sw_closeRaised, sw_closed, sw_inClosed, sw_accepted, sw_fails, sw_tx, sw_acks>>
    /\ UNCHANGED notSW

\* The output of case i acknowledges its sub-batch.
SWOutputAck(t, i, res) ==
    /\ sw_tx[t] = "active"
    /\ sw_st[t][i] = "sent"
    /\ res = "err" => sw_fails < SWMaxFails
    /\ sw_fails' = IF res = "err" THEN sw_fails + 1 ELSE sw_fails
    /\ sw_st' = [sw_st EXCEPT ![t][i] = IF res = "ok" THEN "ok" ELSE "failed"]
    /\ UNCHANGED <<sw_N, sw_continue, sw_retry, sw_offer, sw_blocked, sw_maxInFlight,
                   sw_started, sw_closeRaised, sw_closed, sw_inClosed, sw_accepted, sw_tx, sw_acks>>
    /\ UNCHANGED notSW

\* Under retry_until_success the failed sub-batch of case i is sent again.
SWThrottleRetry(t, i) ==
    /\ sw_retry
    /\ sw_tx[t] = "active"
    /\ sw_st[t][i] = "failed"
    /\ sw_st' = [sw_st EXCEPT ![t][i] = "tosend"]
    /\ UNCHANGED <<sw_N, sw_continue, sw_retry, sw_offer, sw_blocked, sw_maxInFlight,
                   sw_started, sw_closeRaised, sw_closed, sw_inClosed, sw_accepted, sw_fails, sw_tx, sw_acks>>
    /\ UNCHANGED notSW

\* Every case used has acknowledged: the inbound transaction is acknowledged
\* with the aggregate.
SWAckInbound(t) ==
    /\ sw_tx[t] = "active"
    /\ SWAllAcked(sw_st[t], sw_retry)
    /\ "delivered" \in AckOutcomes(sw_closeRaised)
    /\ sw_acks' = [sw_acks EXCEPT ![t] = Append(@, SWAggregate(sw_st[t]))]
    /\ sw_tx' = [sw_tx EXCEPT ![t] = "acked"]
    /\ UNCHANGED <<sw_N, sw_continue, sw_retry, sw_offer, sw_blocked, sw_maxInFlight,
                   sw_started, sw_closeRaised, sw_closed, sw_inClosed, sw_accepted, sw_fails, sw_st>>
    /\ UNCHANGED notSW

\* The close signal fired: pending sends and retries are abandoned.
SWAbandon(t) ==
    /\ sw_tx[t] = "active"
    /\ sw_closeRaised
    /\ sw_tx' = [sw_tx EXCEPT ![t] = "abandoned"]
    /\ UNCHANGED <<sw_N, sw_continue, sw_retry, sw_offer, sw_blocked, sw_maxInFlight,
                   sw_started, sw_closeRaised, sw_closed, sw_inClosed, sw_accepted, sw_fails, sw_st, sw_acks>>
    /\ UNCHANGED notSW

SWShutdown ==
    /\ sw_started
    /\ ~sw_closed
    /\ sw_closeRaised \/ sw_inClosed
    /\ SWActive = {}
    /\ sw_closed' = TRUE
    /\ UNCHANGED <<sw_N, sw_continue, sw_retry, sw_offer, sw_blocked, sw_maxInFlight,
                   sw_started, sw_closeRaised, sw_inClosed, sw_accepted, sw_fails, sw_tx, sw_st, sw_acks>>
    /\ UNCHANGED notSW

SWCloseAsync ==
    /\ ~sw_closeRaised
    /\ sw_closeRaised' = TRUE
    /\ UNCHANGED <<sw_N, sw_continue, sw_retry, sw_offer, sw_blocked, sw_maxInFlight,
                   sw_started, sw_closed, sw_inClosed, sw_accepted, sw_fails, sw_tx, sw_st, sw_acks>>
    /\ UNCHANGED notSW

SWProducerClose ==
    /\ ~sw_inClosed
    /\ sw_inClosed' = TRUE
    /\ UNCHANGED <<sw_N, sw_continue, sw_retry, sw_offer, sw_blocked, sw_maxInFlight,
                   sw_started, sw_closeRaised, sw_closed, sw_accepted, sw_fails, sw_tx, sw_st, sw_acks>>
    /\ UNCHANGED notSW

SWNext ==
    \/ SWConsume
    \/ SWReceive
    \/ \E t \in 1..SWSlots : \E i \in SWCases : SWSend(t, i)
    \/ \E t \in 1..SWSlots : \E i \in SWCases : \E res \in AckValues : SWOutputAck(t, i, res)
    \/ \E t \in 1..SWSlots : \E i \in SWCases : SWThrottleRetry(t, i)
    \/ \E t \in 1..SWSlots : SWAckInbound(t)
    \/ \E t \in 1..SWSlots : SWAbandon(t)
    \/ SWShutdown
    \/ SWCloseAsync
    \/ SWProducerClose

\* ============================================================ Switch routing
\* One inbound batch of a Switch without retry_until_success: the predicates
\* of the cases are evaluated part by part, the parts routed to a case form
\* its sub-batch, and the acknowledgments of the sub-batches are assembled
\* into the acknowledgment of the batch.

SBMaxParts == 2     \* parts of the inbound batch
SBMaxCases == 2     \* cases of the Switch

SBParts == 1..SBMaxParts
SBCases == 0..(SBMaxCases - 1)

\* What the evaluation of a predicate on a part gives.
SBTests == {"yes", "no", "err"}

\* An error of one part: none, the error text of a predicate that failed, no
\* case matched, or the error the output of case `by` reported, either for its
\* whole sub-batch (at = 0) or for the part at position `at` of it.
SBNoErr == [kind |-> "none", by |-> 0, at |-> 0]
SBPredicateErr == [kind |-> "predicate", by |-> 0, at |-> 0]
SBNoConditionErr == [kind |-> "nomatch", by |-> 0, at |-> 0]
SBOutputErr(i, p) == [kind |-> "output", by |-> i, at |-> p]

\* What an output acknowledges a sub-batch of n parts with: success, a plain
\* error, or a batch error with errors indexed by position in the sub-batch.
SBAckOk == [kind |-> "ok", failed |-> {}]
SBAckErr == [kind |-> "err", failed |-> {}]
SBAckNone == [kind |-> "none", failed |-> {}]
SBAckResults(n) ==
    {SBAckOk, SBAckErr} \cup {[kind |-> "batch", failed |-> f] : f \in (SUBSET (1..n)) \ {{}}}

\* After case j matched, the following cases are evaluated only if it
\* declares continue.
SBStopsAfterMut(continue, j) == FALSE
SBStopsAfter(continue, j) == ~continue[j]

\* The cases a part is routed to: the predicates are evaluated in order from
\* case j; an evaluation error counts as no match.
RECURSIVE SBRouteFrom(_, _, _, _)
SBRouteFrom(row, continue, n, j) ==
    IF j >= n THEN {}
    ELSE IF row[j] = "yes"
         THEN {j} \cup (IF SBStopsAfter(continue, j) THEN {} ELSE SBRouteFrom(row, continue, n, j + 1))
         ELSE SBRouteFrom(row, continue, n, j + 1)

\* The error of a part no case matched, under strict_mode.
SBUnmatchedErrMut(row, n, strict) == SBNoErr
SBUnmatchedErr(row, n, strict) ==
    IF ~strict THEN SBNoErr
    ELSE IF \E j \in 0..(n - 1) : row[j] = "err" THEN SBPredicateErr
    ELSE SBNoConditionErr

\* The sub-batch of case i: the parts routed to it, in the order of the batch,
\* given as their positions in the batch.
RECURSIVE SBSubBatchFrom(_, _, _, _)
SBSubBatchFrom(i, targets, len, k) ==
    IF k > len THEN <<>>
    ELSE IF i \in targets[k]
         THEN <<k>> \o SBSubBatchFrom(i, targets, len, k + 1)
         ELSE SBSubBatchFrom(i, targets, len, k + 1)
SBSubBatch(i, targets, len) == SBSubBatchFrom(i, targets, len, 1)

\* The position in the inbound batch of the part at position p of a sub-batch.
SBGetIndexMut(sub, p) == p
SBGetIndex(sub, p) == sub[p]

\* The errors of the batch after the output of case i acknowledged its
\* sub-batch with res: a plain error is set for every part of the sub-batch, a
\* batch error for its indexed parts.
SBSetErrs(errs, i, sub, res) ==
    [k \in SBParts |->
        IF res.kind = "err" /\ \E p \in 1..Len(sub) : SBGetIndex(sub, p) = k
        THEN SBOutputErr(i, 0)
        ELSE IF res.kind = "batch" /\ \E p \in res.failed : SBGetIndex(sub, p) = k
        THEN SBOutputErr(i, CHOOSE p \in res.failed : SBGetIndex(sub, p) = k)
        ELSE errs[k]]

\* The acknowledgment of the batch: success iff no part has an error.
SBGetErr(errs) == IF \A k \in SBParts : errs[k] = SBNoErr THEN "ok" ELSE "batch"

SBInit ==
    /\ sb_N \in 1..SBMaxCases
    /\ sb_continue \in [SBCases -> BOOLEAN]
    /\ \A i \in SBCases : i >= sb_N => ~sb_continue[i]
    /\ sb_strict \in BOOLEAN
    /\ sb_pc = "idle"
    /\ sb_len = 0
    /\ sb_k = 1
    /\ sb_row = [i \in SBCases |-> "no"]
    /\ sb_targets = [k \in SBParts |-> {}]
    /\ sb_errs = [k \in SBParts |-> SBNoErr]
    /\ sb_st = [i \in SBCases |-> "none"]
    /\ sb_out = [i \in SBCases |-> <<>>]
    /\ sb_res = [i \in SBCases |-> SBAckNone]
    /\ sb_ack = "none"

SBIdle ==
    /\ sb_N = 0
    /\ sb_continue = [i \in SBCases |-> FALSE]
    /\ sb_strict = FALSE
    /\ sb_pc = "off"
    /\ sb_len = 0
    /\ sb_k = 1
    /\ sb_row = [i \in SBCases |-> "no"]
    /\ sb_targets = [k \in SBParts |-> {}]
    /\ sb_errs = [k \in SBParts |-> SBNoErr]
    /\ sb_st = [i \in SBCases |-> "none"]
    /\ sb_out = [i \in SBCases |-> <<>>]
    /\ sb_res = [i \in SBCases |-> SBAckNone]
    /\ sb_ack = "none"

\* A batch of len parts is received from the inbound channel.
SBReceive(len) ==
    /\ sb_pc = "idle"
    /\ sb_pc' = "route"
    /\ sb_len' = len
    /\ sb_k' = 1
    /\ UNCHANGED <<sb_N, sb_continue, sb_strict, sb_row, sb_targets, sb_errs, sb_st, sb_out, sb_res, sb_ack>>
    /\ UNCHANGED notSB

\* The predicates are evaluated on the next part, with the outcomes row.
SBEvalPart(row) ==
    /\ sb_pc = "route"
    /\ sb_k <= sb_len
    /\ \A i \in SBCases : i >= sb_N => row[i] = "no"
    /\ LET routed == SBRouteFrom(row, sb_continue, sb_N, 0)
       IN /\ sb_targets' = [sb_targets EXCEPT ![sb_k] = routed]
          /\ sb_errs' = [sb_errs EXCEPT ![sb_k] =
                            IF routed = {} THEN SBUnmatchedErr(row, sb_N, sb_strict) ELSE SBNoErr]
    /\ sb_row' = row
    /\ sb_k' = sb_k + 1
    /\ UNCHANGED <<sb_N, sb_continue, sb_strict, sb_pc, sb_len, sb_st, sb_out, sb_res, sb_ack>>
    /\ UNCHANGED notSB

\* Every part is routed: a case with a sub-batch has a transaction to send.
SBDispatch ==
    /\ sb_pc = "route"
    /\ sb_k > sb_len
    /\ sb_pc' = "dispatch"
    /\ sb_row' = [i \in SBCases |-> "no"]
    /\ sb_st' = [i \in SBCases |->
                    IF SBSubBatch(i, sb_targets, sb_len) # <<>> THEN "tosend" ELSE "none"]
    /\ UNCHANGED <<sb_N, sb_continue, sb_strict, sb_len, sb_k, sb_targets, sb_errs, sb_out, sb_res, sb_ack>>
    /\ UNCHANGED notSB

\* The sub-batch of case i is put on the channel of its output as one transaction.
SBSend(i) ==
    /\ sb_pc = "dispatch"
    /\ sb_st[i] = "tosend"
    /\ sb_out' = [sb_out EXCEPT ![i] = Append(@, SBSubBatch(i, sb_targets, sb_len))]
    /\ sb_st' = [sb_st EXCEPT ![i] = "sent"]
    /\ UNCHANGED <<sb_N, sb_continue, sb_strict, sb_pc, sb_len, sb_k, sb_row, sb_targets, sb_errs, sb_res, sb_ack>>
    /\ UNCHANGED notSB

\* The output of case i acknowledges its sub-batch with res.
SBOutputAck(i, res) ==
    /\ sb_pc = "dispatch"
    /\ sb_st[i] = "sent"
    /\ res \in SBAckResults(Len(SBSubBatch(i, sb_targets, sb_len)))
    /\ sb_res' = [sb_res EXCEPT ![i] = res]
    /\ sb_errs' = SBSetErrs(sb_errs, i, SBSubBatch(i, sb_targets, sb_len), res)
    /\ sb_st' = [sb_st EXCEPT ![i] = "acked"]
    /\ UNCHANGED <<sb_N, sb_continue, sb_strict, sb_pc, sb_len, sb_k, sb_row, sb_targets, sb_out, sb_ack>>
    /\ UNCHANGED notSB

\* No response is pending: the inbound transaction is acknowledged.
SBAckInbound ==
    /\ sb_pc = "dispatch"
    /\ \A i \in SBCases : sb_st[i] \in {"none", "acked"}
    /\ sb_ack' = SBGetErr(sb_errs)
    /\ sb_pc' = "done"
    /\ UNCHANGED <<sb_N, sb_continue, sb_strict, sb_len, sb_k, sb_row, sb_targets, sb_errs, sb_st, sb_out, sb_res>>
    /\ UNCHANGED notSB

SBNext ==
    \/ \E len \in 1..SBMaxParts : SBReceive(len)
    \/ \E row \in [SBCases -> SBTests] : SBEvalPart(row)
    \/ SBDispatch
    \/ \E i \in SBCases : SBSend(i)
    \/ \E i \in SBCases : \E res \in SBAckResults(SBMaxParts) : SBOutputAck(i, res)
    \/ SBAckInbound

\* ================================================================== Consume
\* Consume of each broker: the guard on the inbound channel field, the
\* assignment of the field, and the start of the dispatch loop.

CSMaxChans == 2     \* inbound channels passed to Consume
CSMaxCalls == 3     \* Consume calls made on a broker

CSNil == 0
CSChans == 1..CSMaxChans
CSKinds == {"RoundRobin", "FanOutSequential", "Retry", "FanOut", "DynamicFanOut", "Switch"}

\* if o.transactions != nil { return component.ErrAlreadyStarted }
CSStartedMut(transactions) == FALSE
CSStarted(transactions) == transactions # CSNil

CSInit ==
    /\ cs_kind \in CSKinds
    /\ cs_transactions = CSNil
    /\ cs_wrapped \in (IF cs_kind = "Retry" THEN BOOLEAN ELSE {FALSE})
    /\ cs_loops = 0
    /\ cs_log = <<>>

CSIdle ==
    /\ cs_kind = "none"
    /\ cs_transactions = CSNil
    /\ cs_wrapped = FALSE
    /\ cs_loops = 0
    /\ cs_log = <<>>

\* The call returns the error without touching the broker.
CSReturnError(ch, res) ==
    /\ cs_log' = Append(cs_log, [ch |-> ch, res |-> res])
    /\ UNCHANGED <<cs_kind, cs_transactions, cs_wrapped, cs_loops>>

\* o.transactions = ts; go o.loop(); return nil
CSBind(ch) ==
    /\ cs_transactions' = ch
    /\ cs_loops' = cs_loops + 1
    /\ cs_log' = Append(cs_log, [ch |-> ch, res |-> "ok"])
    /\ UNCHANGED cs_kind

CSRoundRobinConsume(ch) ==
    /\ cs_kind = "RoundRobin"
    /\ Len(cs_log) < CSMaxCalls
    /\ IF CSStarted(cs_transactions)
          THEN CSReturnError(ch, "already-started")
          ELSE CSBind(ch) /\ UNCHANGED cs_wrapped
    /\ UNCHANGED notCS

CSFanOutSequentialConsume(ch) ==
    /\ cs_kind = "FanOutSequential"
    /\ Len(cs_log) < CSMaxCalls
    /\ IF CSStarted(cs_transactions)
          THEN CSReturnError(ch, "already-started")
          ELSE CSBind(ch) /\ UNCHANGED cs_wrapped
    /\ UNCHANGED notCS

\* Retry starts the wrapped output first, and returns its error when that
\* output had been started already.
CSRetryConsume(ch) ==
    /\ cs_kind = "Retry"
    /\ Len(cs_log) < CSMaxCalls
    /\ IF CSStarted(cs_transactions)
          THEN CSReturnError(ch, "already-started")
          ELSE IF cs_wrapped
                  THEN CSReturnError(ch, "already-started")
                  ELSE CSBind(ch) /\ cs_wrapped' = TRUE
    /\ UNCHANGED notCS

CSFanOutConsume(ch) ==
    /\ cs_kind = "FanOut"
    /\ Len(cs_log) < CSMaxCalls
    /\ IF CSStarted(cs_transactions)
          THEN CSReturnError(ch, "already-started")
          ELSE CSBind(ch) /\ UNCHANGED cs_wrapped
    /\ UNCHANGED notCS

CSDynamicFanOutConsume(ch) ==
    /\ cs_kind = "DynamicFanOut"
    /\ Len(cs_log) < CSMaxCalls
    /\ IF CSStarted(cs_transactions)
          THEN CSReturnError(ch, "already-started")
          ELSE CSBind(ch) /\ UNCHANGED cs_wrapped
    /\ UNCHANGED notCS

CSSwitchConsume(ch) ==
    /\ cs_kind = "Switch"
    /\ Len(cs_log) < CSMaxCalls
    /\ IF CSStarted(cs_transactions)
          THEN CSReturnError(ch, "already-started")
          ELSE CSBind(ch) /\ UNCHANGED cs_wrapped
    /\ UNCHANGED notCS

CSNext ==
    \/ \E ch \in CSChans : CSRoundRobinConsume(ch)
    \/ \E ch \in CSChans : CSFanOutSequentialConsume(ch)
    \/ \E ch \in CSChans : CSRetryConsume(ch)
    \/ \E ch \in CSChans : CSFanOutConsume(ch)
    \/ \E ch \in CSChans : CSDynamicFanOutConsume(ch)
    \/ \E ch \in CSChans : CSSwitchConsume(ch)

\* ============================================================= WaitForClose
\* WaitForClose of RoundRobin, FanOutSequential and Retry: a select over the
\* closed signal and a timer.

CLKinds == {"RoundRobin", "FanOutSequential", "Retry"}

CLInit(kind) ==
    /\ cl_kind = kind
    /\ cl_wait = "none"

CLIdle ==
    /\ cl_kind = "none"
    /\ cl_wait = "none"

\* select { case <-o.closedChan: return nil
\*          case <-time.After(timeout): return component.ErrTimeout }
WaitForCloseResultsMut(closedChan) == {"ok", "timeout"}
WaitForCloseResults(closedChan) == IF closedChan THEN {"ok", "timeout"} ELSE {"timeout"}

RRWaitForClose(res) ==
    /\ cl_kind = "RoundRobin"
    /\ res \in WaitForCloseResults(rr_closedChan)
    /\ cl_wait' = res
    /\ UNCHANGED cl_kind
    /\ UNCHANGED notCL

FSWaitForClose(res) ==
    /\ cl_kind = "FanOutSequential"
    /\ res \in WaitForCloseResults(fs_closedChan)
    /\ cl_wait' = res
    /\ UNCHANGED cl_kind
    /\ UNCHANGED notCL

RTWaitForClose(res) ==
    /\ cl_kind = "Retry"
    /\ res \in WaitForCloseResults(rt_closed)
    /\ cl_wait' = res
    /\ UNCHANGED cl_kind
    /\ UNCHANGED notCL

\* ============================================================ specifications

\* ===================================================================== FanIn
\* A fixed list of inputs, each read by a forwarder goroutine that writes what
\* it receives to one merged channel; the loop waits for every forwarder to
\* exit and then closes the merged channel and raises the closed signal.

FIMaxInputs == 2    \* inputs given to NewFanIn
FIMaxTx == 2        \* transactions the inputs emit in a run

FIInputs == 0..(FIMaxInputs - 1)

\* A transaction: its payload and the sink its acknowledgment is written to.
\* The k-th transaction input i emits is FITx(i, k).
FINoTx == [payload |-> <<-1, 0>>, sink |-> <<-1, 0>>]
FITx(i, k) == [payload |-> <<i, k>>, sink |-> <<i, k>>]

\* i.transactions <- in: what the forwarder puts on the merged channel.
FIForwardedMut(in) == [in EXCEPT !.sink = <<-1, 0>>]
FIForwarded(in) == in

\* Transactions the first n inputs have emitted.
RECURSIVE FIEmittedBy(_)
FIEmittedBy(n) == IF n = 0 THEN 0 ELSE fi_emitted[n - 1] + FIEmittedBy(n - 1)
FIEmittedTotal == FIEmittedBy(FIMaxInputs)

\* NewFanIn: every input is recorded in closables and in inputMap and its
\* forwarder is launched; the loop is started.
FIInit ==
    /\ fi_N \in 0..FIMaxInputs
    /\ fi_asked = [i \in FIInputs |-> FALSE]
    /\ fi_srcClosed = [i \in FIInputs |-> FALSE]
    /\ fi_emitted = [i \in FIInputs |-> 0]
    /\ fi_pc = [i \in FIInputs |-> IF i < fi_N THEN "recv" ELSE "none"]
    /\ fi_in = [i \in FIInputs |-> FINoTx]
    /\ fi_inputMap = {i \in FIInputs : i < fi_N}
    /\ fi_loop = "run"
    /\ fi_txClosed = FALSE
    /\ fi_closedChan = FALSE
    /\ fi_merged = <<>>
    /\ fi_wait = "none"

FIIdle ==
    /\ fi_N = 0
    /\ fi_asked = [i \in FIInputs |-> FALSE]
    /\ fi_srcClosed = [i \in FIInputs |-> FALSE]
    /\ fi_emitted = [i \in FIInputs |-> 0]
    /\ fi_pc = [i \in FIInputs |-> "none"]
    /\ fi_in = [i \in FIInputs |-> FINoTx]
    /\ fi_inputMap = {}
    /\ fi_loop = "off"
    /\ fi_txClosed = FALSE
    /\ fi_closedChan = FALSE
    /\ fi_merged = <<>>
    /\ fi_wait = "none"

\* forwarder: in, open := <-inputs[index].TransactionChan() with open = true
FIFwdReceive(i) ==
    /\ fi_pc[i] = "recv"
    /\ ~fi_srcClosed[i]
    /\ FIEmittedTotal < FIMaxTx
    /\ fi_emitted' = [fi_emitted EXCEPT ![i] = @ + 1]
    /\ fi_in' = [fi_in EXCEPT ![i] = FITx(i, fi_emitted[i] + 1)]
    /\ fi_pc' = [fi_pc EXCEPT ![i] = "fwd"]
    /\ UNCHANGED <<fi_N, fi_asked, fi_srcClosed, fi_inputMap, fi_loop, fi_txClosed,
                   fi_closedChan, fi_merged, fi_wait>>
    /\ UNCHANGED notFI

\* forwarder: open = false: return, and the deferred function starts
FIFwdReceiveClosed(i) ==
    /\ fi_pc[i] = "recv"
    /\ fi_srcClosed[i]
    /\ fi_pc' = [fi_pc EXCEPT ![i] = "defer"]
    /\ UNCHANGED <<fi_N, fi_asked, fi_srcClosed, fi_emitted, fi_in, fi_inputMap, fi_loop,
                   fi_txClosed, fi_closedChan, fi_merged, fi_wait>>
    /\ UNCHANGED notFI

\* forwarder: i.transactions <- in, received by the consumer of the broker
FIFwdSend(i) ==
    /\ fi_pc[i] = "fwd"
    /\ ~fi_txClosed
    /\ fi_merged' = Append(fi_merged, FIForwarded(fi_in[i]))
    /\ fi_in' = [fi_in EXCEPT ![i] = FINoTx]
    /\ fi_pc' = [fi_pc EXCEPT ![i] = "recv"]
    /\ UNCHANGED <<fi_N, fi_asked, fi_srcClosed, fi_emitted, fi_inputMap, fi_loop,
                   fi_txClosed, fi_closedChan, fi_wait>>
    /\ UNCHANGED notFI

\* forwarder, deferred: i.inputClosedChan <- index, received by the loop, which
\* deletes the index from inputMap.
FIFwdDefer(i) ==
    /\ fi_pc[i] = "defer"
    /\ fi_loop = "run"
    /\ fi_inputMap # {}
    /\ fi_inputMap' = fi_inputMap \ {i}
    /\ fi_pc' = [fi_pc EXCEPT ![i] = "done"]
    /\ UNCHANGED <<fi_N, fi_asked, fi_srcClosed, fi_emitted, fi_in, fi_loop, fi_txClosed,
                   fi_closedChan, fi_merged, fi_wait>>
    /\ UNCHANGED notFI

\* for len(i.inputMap) > 0 { ... }: the condition that ends the loop
FILoopEndsMut(inputMap) == TRUE
FILoopEnds(inputMap) == Cardinality(inputMap) = 0

\* loop: len(i.inputMap) = 0, so the loop ends and the deferred function closes
\* inputClosedChan, the merged channel and closedChan.
FILoopExit ==
    /\ fi_loop = "run"
    /\ FILoopEnds(fi_inputMap)
    /\ fi_loop' = "done"
    /\ fi_txClosed' = TRUE
    /\ fi_closedChan' = TRUE
    /\ UNCHANGED <<fi_N, fi_asked, fi_srcClosed, fi_emitted, fi_pc, fi_in, fi_inputMap,
                   fi_merged, fi_wait>>
    /\ UNCHANGED notFI

\* CloseAsync: CloseAsync is called on every input.
FICloseAsync ==
    /\ fi_loop # "off"
    /\ \E i \in FIInputs : i < fi_N /\ ~fi_asked[i]
    /\ fi_asked' = [i \in FIInputs |-> i < fi_N]
    /\ UNCHANGED <<fi_N, fi_srcClosed, fi_emitted, fi_pc, fi_in, fi_inputMap, fi_loop,
                   fi_txClosed, fi_closedChan, fi_merged, fi_wait>>
    /\ UNCHANGED notFI

\* An input closes its transaction channel, asked to or of its own accord.
FIInputCloses(i) ==
    /\ fi_pc[i] \in {"recv", "fwd"}
    /\ ~fi_srcClosed[i]
    /\ fi_srcClosed' = [fi_srcClosed EXCEPT ![i] = TRUE]
    /\ UNCHANGED <<fi_N, fi_asked, fi_emitted, fi_pc, fi_in, fi_inputMap, fi_loop,
                   fi_txClosed, fi_closedChan, fi_merged, fi_wait>>
    /\ UNCHANGED notFI

FIWaitForClose(res) ==
    /\ fi_loop # "off"
    /\ fi_wait = "none"
    /\ res \in WaitForCloseResults(fi_closedChan)
    /\ fi_wait' = res
    /\ UNCHANGED <<fi_N, fi_asked, fi_srcClosed, fi_emitted, fi_pc, fi_in, fi_inputMap,
                   fi_loop, fi_txClosed, fi_closedChan, fi_merged>>
    /\ UNCHANGED notFI

FINext ==
    \/ \E i \in FIInputs : FIFwdReceive(i)
    \/ \E i \in FIInputs : FIFwdReceiveClosed(i)
    \/ \E i \in FIInputs : FIFwdSend(i)
    \/ \E i \in FIInputs : FIFwdDefer(i)
    \/ FILoopExit
    \/ FICloseAsync
    \/ \E i \in FIInputs : FIInputCloses(i)
    \/ \E res \in {"ok", "timeout"} : FIWaitForClose(res)


\* ============================================================= Pulsar writer

PWMaxCloses == 2    \* CloseAsync calls made on a Pulsar writer
PWMaxConnects == 2  \* ConnectWithContext calls made on a Pulsar writer
PWMaxWrites == 1    \* WriteWithContext calls made on a Pulsar writer

\* newPulsarWriter: no client, no producer, a new signaller.
PWInit ==
    /\ pw_on = TRUE
    /\ pw_client = "nil"
    /\ pw_atLeisure = FALSE
    /\ pw_hasClosed = FALSE
    /\ pw_pending = 0
    /\ pw_closes = 0
    /\ pw_connects = 0
    /\ pw_err = "none"
    /\ pw_writes = 0
    /\ pw_res = "none"
    /\ pw_wait = "none"

PWIdle ==
    /\ pw_on = FALSE
    /\ pw_client = "nil"
    /\ pw_atLeisure = FALSE
    /\ pw_hasClosed = FALSE
    /\ pw_pending = 0
    /\ pw_closes = 0
    /\ pw_connects = 0
    /\ pw_err = "none"
    /\ pw_writes = 0
    /\ pw_res = "none"
    /\ pw_wait = "none"

\* ConnectWithContext, under p.m: nil at once when p.client is set; otherwise
\* pulsar.NewClient and client.CreateProducer, either of which may fail and
\* leave the writer without a client.
PWConnectWithContext(ok) ==
    /\ pw_on
    /\ pw_connects < PWMaxConnects
    /\ pw_connects' = pw_connects + 1
    /\ IF pw_client = "open"
       THEN ok /\ pw_err' = "nil" /\ UNCHANGED pw_client
       ELSE /\ pw_client' = IF ok THEN "open" ELSE "nil"
            /\ pw_err' = IF ok THEN "nil" ELSE "err"
    /\ UNCHANGED <<pw_on, pw_atLeisure, pw_hasClosed, pw_pending, pw_closes, pw_writes, pw_res, pw_wait>>
    /\ UNCHANGED notPW

\* if p.shutSig.ShouldCloseAtLeisure() { p.shutSig.ShutdownComplete() }
PWSignals(client, atLeisure, hasClosed) == hasClosed \/ (client = "open" /\ atLeisure)

\* disconnect, under p.m: returns at once when p.client is nil; otherwise
\* closes producer and client, sets both to nil and, when close-at-leisure is
\* signalled, signals shutdown-complete.
PWDisconnect ==
    /\ pw_pending > 0
    /\ pw_pending' = pw_pending - 1
    /\ pw_hasClosed' = PWSignals(pw_client, pw_atLeisure, pw_hasClosed)
    /\ pw_client' = "nil"
    /\ UNCHANGED <<pw_on, pw_atLeisure, pw_closes, pw_connects, pw_err, pw_writes, pw_res, pw_wait>>
    /\ UNCHANGED notPW

\* WriteWithContext: ErrNotConnected without a producer, otherwise what
\* producer.Send returns.
PWWriteWithContext(res) ==
    /\ pw_on
    /\ pw_writes < PWMaxWrites
    /\ res \in IF pw_client = "open" THEN {"ok", "err"} ELSE {"notconnected"}
    /\ pw_writes' = pw_writes + 1
    /\ pw_res' = res
    /\ UNCHANGED <<pw_on, pw_client, pw_atLeisure, pw_hasClosed, pw_pending, pw_closes, pw_connects,
                   pw_err, pw_wait>>
    /\ UNCHANGED notPW

\* CloseAsync: p.shutSig.CloseAtLeisure(); go p.disconnect(context.Background())
PWCloseAsync ==
    /\ pw_on
    /\ pw_closes < PWMaxCloses
    /\ pw_closes' = pw_closes + 1
    /\ pw_atLeisure' = TRUE
    /\ pw_pending' = pw_pending + 1
    /\ UNCHANGED <<pw_on, pw_client, pw_hasClosed, pw_connects, pw_err, pw_writes, pw_res, pw_wait>>
    /\ UNCHANGED notPW

\* WaitForClose: nil when HasClosedChan is closed, ErrTimeout after the timeout.
PWWaitForClose(res) ==
    /\ pw_on
    /\ pw_wait = "none"
    /\ res \in WaitForCloseResults(pw_hasClosed)
    /\ pw_wait' = res
    /\ UNCHANGED <<pw_on, pw_client, pw_atLeisure, pw_hasClosed, pw_pending, pw_closes, pw_connects,
                   pw_err, pw_writes, pw_res>>
    /\ UNCHANGED notPW

PWNext ==
    \/ \E ok \in BOOLEAN : PWConnectWithContext(ok)
    \/ PWDisconnect
    \/ \E res \in {"ok", "err", "notconnected"} : PWWriteWithContext(res)
    \/ PWCloseAsync
    \/ \E res \in {"ok", "timeout"} : PWWaitForClose(res)

InitRR == RRInit /\ FSIdle /\ RTIdle /\ FOIdle /\ DIIdle /\ DFIdle /\ CSIdle /\ CLIdle /\ SWIdle /\ SBIdle /\ FIIdle /\ PWIdle
NextRR == RRNext
SpecRR == InitRR /\ [][NextRR]_vars

\* A RoundRobin over any output list its constructor accepts.
InitRRAnyList == RRInitAnyList /\ FSIdle /\ RTIdle /\ FOIdle /\ DIIdle /\ DFIdle /\ CSIdle /\ CLIdle /\ SWIdle /\ SBIdle /\ FIIdle /\ PWIdle
NextRRAnyList == RRNext \/ RRIndexPanic
SpecRRAnyList == InitRRAnyList /\ [][NextRRAnyList]_vars

InitFS == FSInit /\ RRIdle /\ RTIdle /\ FOIdle /\ DIIdle /\ DFIdle /\ CSIdle /\ CLIdle /\ SWIdle /\ SBIdle /\ FIIdle /\ PWIdle
NextFS == FSNext
SpecFS == InitFS /\ [][NextFS]_vars

InitRT == RTInit /\ RRIdle /\ FSIdle /\ FOIdle /\ DIIdle /\ DFIdle /\ CSIdle /\ CLIdle /\ SWIdle /\ SBIdle /\ FIIdle /\ PWIdle
NextRT == RTNext
SpecRT == InitRT /\ [][NextRT]_vars

InitRTBacklog == RTInitBacklog /\ RRIdle /\ FSIdle /\ FOIdle /\ DIIdle /\ DFIdle /\ CSIdle /\ CLIdle /\ SWIdle /\ SBIdle /\ FIIdle /\ PWIdle
SpecRTBacklog == InitRTBacklog /\ [][NextRT]_vars

InitFO == FOInit /\ RRIdle /\ FSIdle /\ RTIdle /\ DIIdle /\ DFIdle /\ CSIdle /\ CLIdle /\ SWIdle /\ SBIdle /\ FIIdle /\ PWIdle
NextFO == FONext
SpecFO == InitFO /\ [][NextFO]_vars

InitDI == DIInit /\ RRIdle /\ FSIdle /\ RTIdle /\ FOIdle /\ DFIdle /\ CSIdle /\ CLIdle /\ SWIdle /\ SBIdle /\ FIIdle /\ PWIdle
NextDI == DINext
SpecDI == InitDI /\ [][NextDI]_vars

\* The steps of SetInput and of managerLoop that are taken once they can be:
\* channel operations whose other side is ready, and timers.
DISteps ==
    \/ \E c \in DICalls : DISetInputSend(c)
    \/ \E c \in DICalls : DISetInputClosed(c)
    \/ DIRemoveDone
    \/ DIRemoveTimeout
    \/ DIReply
    \/ DIReplyClosed
    \/ DICloseAsyncClose
InitDF == DFInit /\ RRIdle /\ FSIdle /\ RTIdle /\ FOIdle /\ DIIdle /\ CSIdle /\ CLIdle /\ SWIdle /\ SBIdle /\ FIIdle /\ PWIdle
NextDF == DFNext
SpecDF == InitDF /\ [][NextDF]_vars


InitFI == FIInit /\ RRIdle /\ FSIdle /\ RTIdle /\ FOIdle /\ DIIdle /\ DFIdle /\ CSIdle /\ CLIdle /\ SWIdle /\ SBIdle /\ PWIdle
NextFI == FINext
SpecFI == InitFI /\ [][NextFI]_vars

\* The loop of a FanIn is a goroutine of its own and is always scheduled.
SpecFILive == InitFI /\ [][NextFI]_vars /\ WF_vars(FILoopExit)

InitPW == PWInit /\ RRIdle /\ FSIdle /\ RTIdle /\ FOIdle /\ DIIdle /\ DFIdle /\ CSIdle /\ CLIdle /\ SWIdle /\ SBIdle /\ FIIdle
NextPW == PWNext
\* The goroutine CloseAsync starts for disconnect is scheduled.
SpecPW == InitPW /\ [][NextPW]_vars /\ WF_vars(PWDisconnect)

\* A FanIn or a DynamicFanIn.
InitMerge == InitFI \/ InitDI
NextMerge == NextFI \/ NextDI
SpecMerge == InitMerge /\ [][NextMerge]_vars

SpecDILive == InitDI /\ [][NextDI]_vars /\ WF_vars(DISteps)

\* The steps a DynamicFanIn, its forwarders and the inputs it asked to close
\* take by themselves; the consumer of the merged channel is not among them.
DIShutdownSteps ==
    \/ DISteps
    \/ DILoopCloseSeen
    \/ DIDeferCloseInputs
    \/ \E L \in DILabels : DIDrainRemove(L)
    \/ DIDeferClose
    \/ \E m \in DIMembers : DIFwdOnAdd(m)
    \/ \E m \in DIMembers : DIFwdReceiveClosed(m)
    \/ \E m \in DIMembers : DIFwdDefer(m)
    \/ \E m \in DIMembers : di_m[m].asked /\ DIInputCloses(m)
SpecDIShutdown == InitDI /\ [][NextDI]_vars /\ WF_vars(DIShutdownSteps)


InitCS == CSInit /\ RRIdle /\ FSIdle /\ RTIdle /\ FOIdle /\ DIIdle /\ DFIdle /\ CLIdle /\ SWIdle /\ SBIdle /\ FIIdle /\ PWIdle
NextCS == CSNext
SpecCS == InitCS /\ [][NextCS]_vars

\* One of RoundRobin, FanOutSequential and Retry, run, shut down and waited for.
InitClose ==
    \/ CLInit("RoundRobin") /\ RRInit /\ FSIdle /\ RTIdle /\ FOIdle /\ DIIdle /\ DFIdle /\ CSIdle /\ SWIdle /\ SBIdle /\ FIIdle /\ PWIdle
    \/ CLInit("FanOutSequential") /\ FSInit /\ RRIdle /\ RTIdle /\ FOIdle /\ DIIdle /\ DFIdle /\ CSIdle /\ SWIdle /\ SBIdle /\ FIIdle /\ PWIdle
    \/ CLInit("Retry") /\ RTInit /\ RRIdle /\ FSIdle /\ FOIdle /\ DIIdle /\ DFIdle /\ CSIdle /\ SWIdle /\ SBIdle /\ FIIdle /\ PWIdle
NextClose ==
    \/ cl_kind = "RoundRobin" /\ RRNext
    \/ cl_kind = "FanOutSequential" /\ FSNext
    \/ cl_kind = "Retry" /\ RTNext
    \/ \E res \in {"ok", "timeout"} : RRWaitForClose(res)
    \/ \E res \in {"ok", "timeout"} : FSWaitForClose(res)
    \/ \E res \in {"ok", "timeout"} : RTWaitForClose(res)
SpecClose == InitClose /\ [][NextClose]_vars

\* A RoundRobin or a FanOutSequential, run and shut down.
InitOutChans ==
    \/ CLInit("RoundRobin") /\ RRInit /\ FSIdle /\ RTIdle /\ FOIdle /\ DIIdle /\ DFIdle /\ CSIdle /\ SWIdle /\ SBIdle /\ FIIdle /\ PWIdle
    \/ CLInit("FanOutSequential") /\ FSInit /\ RRIdle /\ RTIdle /\ FOIdle /\ DIIdle /\ DFIdle /\ CSIdle /\ SWIdle /\ SBIdle /\ FIIdle /\ PWIdle
NextOutChans ==
    \/ cl_kind = "RoundRobin" /\ RRNext
    \/ cl_kind = "FanOutSequential" /\ FSNext
SpecOutChans == InitOutChans /\ [][NextOutChans]_vars

\* A FanOutSequential or a FanOut, run and shut down.
InitAbandon ==
    \/ CLInit("FanOutSequential") /\ FSInit /\ RRIdle /\ RTIdle /\ FOIdle /\ DIIdle /\ DFIdle /\ CSIdle /\ SWIdle /\ SBIdle /\ FIIdle /\ PWIdle
    \/ CLInit("FanOut") /\ FOInit /\ RRIdle /\ FSIdle /\ RTIdle /\ DIIdle /\ DFIdle /\ CSIdle /\ SWIdle /\ SBIdle /\ FIIdle /\ PWIdle
NextAbandon ==
    \/ cl_kind = "FanOutSequential" /\ FSNext
    \/ cl_kind = "FanOut" /\ FONext
SpecAbandon == InitAbandon /\ [][NextAbandon]_vars

\* A FanOutSequential of one output, built with or without WithMaxInFlight.
InitFSInFlight ==
    FSInitInFlight /\ RRIdle /\ RTIdle /\ FOIdle /\ DIIdle /\ DFIdle /\ CSIdle /\ CLIdle /\ SWIdle /\ SBIdle /\ FIIdle /\ PWIdle
NextFSInFlight == FSNext
SpecFSInFlight == InitFSInFlight /\ [][NextFSInFlight]_vars

\* The steps a broker takes by itself once they can be taken: leaving a select
\* whose close case is ready, a timer that fires, a cancelled acknowledgment,
\* and the deferred shutdown.
CloseSteps ==
    \/ cl_kind = "RoundRobin" /\ (RRLoopTop \/ RRCloseSeen \/ RRDefer \/ RRDeferSignal)
    \/ cl_kind = "FanOutSequential" /\
          \/ \E w \in FSWorkers : FSCtxDoneSeen(w)
          \/ \E w \in FSWorkers : FSAckCancelled(w)
          \/ FSDefer
          \/ FSDeferSignal
    \/ cl_kind = "Retry" /\
          \/ RTLoopTop
          \/ RTErrLoopedZero
          \/ RTLoopCloseSeen
          \/ RTCtxCancelled
          \/ RTDefer
          \/ RTDeferSignal
          \/ \E t \in 1..RTSlots : RTGLoopTop(t)
          \/ \E t \in 1..RTSlots : RTGCloseSeen(t)
          \/ \E t \in 1..RTSlots : RTAckCancelled(t)
          \/ \E t \in 1..RTSlots : RTGExit(t)
\* WaitForClose only reads the closed signal, so the calls are left out of the
\* steps whose termination is checked.
NextCloseLive ==
    \/ cl_kind = "RoundRobin" /\ RRNext
    \/ cl_kind = "FanOutSequential" /\ FSNext
    \/ cl_kind = "Retry" /\ RTNext
SpecCloseLive == InitClose /\ [][NextCloseLive]_vars /\ WF_vars(CloseSteps)

InitSW == SWInit /\ RRIdle /\ FSIdle /\ RTIdle /\ FOIdle /\ DIIdle /\ DFIdle /\ CSIdle /\ CLIdle /\ SBIdle /\ FIIdle /\ PWIdle
NextSW == SWNext
SpecSW == InitSW /\ [][NextSW]_vars

\* A FanOut or a Switch with an output that never receives from its channel,
\* and for comparison one with a single output, which receives.
InitSB == SBInit /\ RRIdle /\ FSIdle /\ RTIdle /\ FOIdle /\ DIIdle /\ DFIdle /\ CSIdle /\ CLIdle /\ SWIdle /\ FIIdle /\ PWIdle
NextSB == SBNext
SpecSB == InitSB /\ [][NextSB]_vars

InitBackPressure ==
    \/ ((FOInit /\ fo_N = 1) \/ FOInitBlocked) /\ RRIdle /\ FSIdle /\ RTIdle /\ DIIdle /\ DFIdle /\ CSIdle /\ CLIdle /\ SWIdle /\ SBIdle /\ FIIdle /\ PWIdle
    \/ ((SWInit /\ sw_N = 1) \/ SWInitBlocked) /\ RRIdle /\ FSIdle /\ RTIdle /\ FOIdle /\ DIIdle /\ DFIdle /\ CSIdle /\ CLIdle /\ SBIdle /\ FIIdle /\ PWIdle
NextBackPressure ==
    \/ sw_N = 0 /\ FONext
    \/ SWNext
SpecBackPressure == InitBackPressure /\ [][NextBackPressure]_vars

\* The brokers with add and remove hooks: a DynamicFanIn or a DynamicFanOut.
InitHooks == InitDI \/ InitDF
NextHooks == NextDI \/ NextDF
SpecHooks == InitHooks /\ [][NextHooks]_vars

\* Inbound transactions that reached an output channel.
RRForwardedCount == rr_accepted - (IF rr_ts # NoTx THEN 1 ELSE 0)

\* C4: over N outputs, once M inbound transactions have been forwarded, output
\* i (0-based) has received exactly ceil((M-i)/N) of them, namely those at
\* inbound positions i, i+N, i+2N, ... in inbound order.
C4_RoundRobinDistribution ==
    \A k \in 0..(rr_N - 1) :
        /\ Len(rr_out[k]) = CeilDiv(RRForwardedCount - k, rr_N)
        /\ \A j \in 1..Len(rr_out[k]) : rr_out[k][j].id = k + (j - 1) * rr_N + 1

C4_Witness ==
    /\ rr_N = 2
    /\ ~rr_closeChan
    /\ RRForwardedCount = MaxTx
    /\ Len(rr_out[0]) >= 2
    /\ Len(rr_out[1]) >= 1

RRPlaces(t) ==
    {kj \in (0..(rr_N - 1)) \X (1..MaxTx) :
        kj[2] <= Len(rr_out[kj[1]]) /\ rr_out[kj[1]][kj[2]].id = t}

\* C5: every accepted transaction is put on exactly one output channel (none
\* while it is still held), the delivered transaction has the payload and the
\* ack sink of the inbound one, and every value in an inbound ack sink was
\* written by the output that received that transaction, never by the broker.
C5_RoundRobinPassThrough ==
    /\ \A t \in 1..rr_accepted :
         Cardinality(RRPlaces(t)) = (IF rr_ts.id = t THEN 0 ELSE 1)
    /\ \A k \in 0..(rr_N - 1) : \A j \in 1..Len(rr_out[k]) :
         /\ rr_out[k][j].payload = rr_inTx[rr_out[k][j].id].payload
         /\ rr_out[k][j].sink = rr_inTx[rr_out[k][j].id].sink
    /\ \A t \in 1..MaxTx : \A a \in 1..Len(rr_acks[t]) :
         /\ rr_acks[t][a].by \in 0..(rr_N - 1)
         /\ \E kj \in RRPlaces(t) : kj[1] = rr_acks[t][a].by
    /\ \A t \in 1..MaxTx : Len(rr_acks[t]) <= 1

C5_Witness ==
    \E t \in 1..MaxTx :
        /\ Len(rr_acks[t]) = 1
        /\ rr_acks[t][1].val = "err"
        /\ rr_inTx[t].payload = "world"

\* C6: for each inbound transaction of FanOutSequential, nothing is put on
\* output k's channel before every output below k acknowledged success, an
\* output that acknowledged success (and every output below it) is never sent
\* the transaction again, a failed acknowledgment from output k is followed by
\* a send to output k only, and the inbound sink is written success only after
\* the last output acknowledged success.
C6_SequentialOrder ==
    \A t \in FSTxs :
        LET h == fs_hist[t]
        IN /\ \A p \in 1..Len(h) :
                h[p].ev = "send" =>
                    /\ \A j \in 0..(h[p].out - 1) :
                          \E q \in 1..(p - 1) : h[q].ev = "ok" /\ h[q].out = j
                    /\ \A q \in 1..(p - 1) :
                          /\ h[q].ev = "send" => h[q].out <= h[p].out
                          /\ h[q].ev = "ok" => h[q].out < h[p].out
           /\ \A p \in 1..(Len(h) - 1) :
                h[p].ev = "err" => h[p + 1].ev = "send" /\ h[p + 1].out = h[p].out
           /\ \A a \in 1..Len(fs_acks[t]) :
                /\ fs_acks[t][a] = "ok"
                /\ \E q \in 1..Len(h) : h[q].ev = "ok" /\ h[q].out = fs_N - 1

C6_Witness ==
    /\ fs_N = 2
    /\ \E t \in FSTxs :
         /\ fs_acks[t] = <<"ok">>
         /\ \E p \in 1..Len(fs_hist[t]) : fs_hist[t][p].ev = "err" /\ fs_hist[t][p].out = 1
         /\ Cardinality({p \in 1..Len(fs_hist[t]) :
                            fs_hist[t][p].ev = "send" /\ fs_hist[t][p].out = 0}) = 1
         /\ Cardinality({p \in 1..Len(fs_hist[t]) :
                            fs_hist[t][p].ev = "send" /\ fs_hist[t][p].out = 1}) = 2

\* C1: every transaction a broker accepted has exactly one value written to its
\* ack sink on every path; stated for the Retry wrapper on the paths where the
\* close signal is never raised: once the wrapper has shut down (the inbound
\* channel was closed and every goroutine has exited), each accepted
\* transaction's sink holds exactly one value.
C1_ExactlyOneAck ==
    (rt_closed /\ ~rt_closeRaised) =>
        \A t \in 1..rt_accepted : Len(rt_acks[t]) = 1

\* A transaction is in its retry loop: it received a failure acknowledgment and
\* has not yet been acknowledged upstream.
RTInRetryLoop(t) ==
    /\ rt_g[t].inErrLoop
    /\ rt_g[t].pc \in {"top", "waitres", "backoff", "resend", "ack"}

\* C7: the Retry wrapper receives no transaction from its inbound channel in a
\* state where some transaction is in its retry loop.
C7_NoReceiveWhileRetrying ==
    [][(rt_accepted' # rt_accepted) => ~(\E t \in 1..RTSlots : RTInRetryLoop(t))]_vars

\* C8 as stated: with max_retries = K the wrapper puts at most K+1 transactions
\* on its outbound channel per inbound transaction, for every K including 0.
C8_SendBoundAnyK ==
    \A t \in 1..RTSlots : RTSends(t) <= rt_K + 1

\* C8 amended: the bound of K+1 downstream sends per inbound transaction holds
\* for every K >= 1 (K = 0 configures no bound on the retries).
C8_SendBound ==
    rt_K >= 1 => \A t \in 1..RTSlots : RTSends(t) <= rt_K + 1

C8_Witness ==
    /\ rt_K >= 1
    /\ ~rt_elapsedSet
    /\ \E t \in 1..RTSlots :
         RTSends(t) = rt_K + 1 /\ RTFails(t) = rt_K + 1 /\ rt_acks[t] = <<"failed">>

\* C9: once the backoff policy reported Stop for a transaction, nothing more is
\* put on the outbound channel for it, and when its goroutine has finished
\* (close signal never raised) its inbound sink holds exactly one value, the
\* send-failed error.
C9_ExhaustedAcksSendFailed ==
    \A t \in 1..RTSlots :
        rt_g[t].resOut = "failed" =>
            /\ rt_hist[t][Len(rt_hist[t])].ev = "err"
            /\ \A a \in 1..Len(rt_acks[t]) : rt_acks[t][a] = "failed"
            /\ Len(rt_acks[t]) <= 1
            /\ (rt_g[t].pc = "done" /\ ~rt_closeRaised) => Len(rt_acks[t]) = 1

\* C10: with max_retries = 0 and max_elapsed_time = 0 the inbound sink is never
\* written an error, and it is written success only after the child
\* acknowledged success for one of the transaction's sends.
C10_SuccessOnlyAfterChildSuccess ==
    (rt_K = 0 /\ ~rt_elapsedSet) =>
        \A t \in 1..RTSlots : \A a \in 1..Len(rt_acks[t]) :
            /\ rt_acks[t][a] = "ok"
            /\ \E p \in 1..Len(rt_hist[t]) : rt_hist[t][p].ev = "ok"

C3_ResendOnlyToFailed ==
    \A t \in 1..FOSlots : \A i \in 0..(fo_N - 1) :
        /\ FOSends(t, i) = FOFails(t, i) + (IF fo_st[t][i] \in {"sent", "ok"} THEN 1 ELSE 0)
        /\ \A p \in 1..Len(fo_hist[t][i]) :
              fo_hist[t][i][p].ev = "send" => fo_hist[t][i][p].tx.payload = PayloadOf(t)
        /\ (fo_tx[t] \in {"acked", "abandoned"} /\ fo_st[t][i] # "ok") => fo_closeRaised

C3_Witness ==
    /\ fo_N = 2
    /\ \E t \in 1..FOSlots :
         /\ fo_acks[t] = <<"ok">>
         /\ FOSends(t, 0) = 1
         /\ FOFails(t, 1) = 1
         /\ FOSends(t, 1) = 2

\* C13: SetInput for a label that already maps to an input: the new input's
\* forwarder is never started while the old forwarder has not exited; when the
\* wait for the old forwarder timed out, the label still maps to the old input
\* when managerLoop replies, the new input is neither started nor stored, and
\* the call returns the timeout error.
C13_ReplaceTimeout ==
    /\ \A m1 \in DIMembers : \A m2 \in DIMembers :
          (m1 # m2 /\ di_m[m1].label = di_m[m2].label) => ~(DILive(m1) /\ DILive(m2))
    /\ \A c \in DICalls :
          di_call[c].timedOut =>
             /\ di_m[c].pc = "none"
             /\ di_req = c => di_inputs[di_call[c].label] \notin {c, DINoMember}
             /\ di_call[c].pc = "ret" => di_call[c].res = "timeout"

\* C14: a SetInput call that begins after CloseAsync returns the closed error
\* and is never served by managerLoop (the label map is left as it is), and
\* every SetInput call that began returns.
C14_Safety ==
    \A c \in DICalls :
        di_call[c].late => di_call[c].pc = "ret" /\ di_call[c].res = "closed" /\ di_req # c
C14_SetInputAfterClose ==
    /\ []C14_Safety
    /\ \A c \in DICalls : (di_call[c].pc # "none") ~> (di_call[c].pc = "ret")

C14_Witness ==
    /\ di_closeChan
    /\ \E c \in DICalls : di_call[c].late /\ di_call[c].res = "closed" /\ di_call[c].input
    /\ di_inputs[1] = 0

\* Member k was in the map when transaction t was accepted: the SetOutput that
\* added it had returned, and none that removed it had.
DFRegistered(k, t) ==
    /\ df_mem[k].addedAt >= 0
    /\ df_mem[k].addedAt < t
    /\ df_mem[k].removedAt = -1 \/ df_mem[k].removedAt >= t

\* SetOutput call c removed an output (nil output, label in use) and returned success.
DFRemovedBy(c) ==
    /\ df_call[c].pc = "ret" /\ df_call[c].res = "ok"
    /\ ~df_call[c].output
    /\ df_call[c].old # DFNoMember

\* C11: once SetOutput(L, nil, t) has returned success, no transaction accepted
\* afterwards is forwarded to the removed output, no output is added under L
\* and no add hook is invoked for the call, and every output that is in the
\* map when a later transaction is accepted has that transaction addressed to it.
C11_RemovedOutputGetsNothing ==
    \A c \in DFCalls :
       DFRemovedBy(c) =>
          LET old == df_call[c].old
          IN /\ df_mem[old].removedAt >= 0
             /\ df_mem[DFNumLabels + c].onAdd = 0
             /\ df_outputs[df_call[c].label] \notin {old, DFNumLabels + c}
             /\ \A t \in 1..DFMaxTx :
                   (t > df_mem[old].removedAt /\ df_tx[t] # "none") =>
                      /\ df_st[t][old] = "none"
                      /\ \A k \in DFMembers : DFRegistered(k, t) => df_st[t][k] # "none"

\* An output was removed, and a transaction accepted afterwards was delivered
\* to the output that remained and acknowledged.
C11_Witness ==
    \E c \in DFCalls : \E t \in 1..DFMaxTx : \E k \in DFMembers :
       /\ DFRemovedBy(c)
       /\ t > df_mem[df_call[c].old].removedAt
       /\ k # df_call[c].old
       /\ df_st[t][k] = "ok"
       /\ df_tx[t] = "acked"

\* SetOutput call c added an output under a label that was not in use and
\* returned success.
DFAddedBy(c) ==
    /\ df_call[c].pc = "ret" /\ df_call[c].res = "ok"
    /\ df_call[c].output
    /\ df_call[c].old = DFNoMember

\* C12: once SetOutput(L, out, t) with a new label has returned success, every
\* transaction accepted afterwards (while out is in the map) is addressed to out
\* and to every other output in the map, and the producer is sent a success
\* acknowledgment only when all of them have acknowledged success.
C12_AddedOutputGetsEverything ==
    \A c \in DFCalls :
       DFAddedBy(c) =>
          LET m == DFNumLabels + c
          IN /\ df_mem[m].addedAt >= 0
             /\ df_mem[m].onAdd = 1
             /\ \A t \in 1..DFMaxTx :
                   (df_tx[t] # "none" /\ DFRegistered(m, t)) =>
                      \A k \in DFMembers :
                         DFRegistered(k, t) =>
                            /\ df_st[t][k] # "none"
                            /\ df_acks[t] # <<>> => df_st[t][k] = "ok"

\* An output was added under a new label, and a transaction accepted afterwards
\* was acknowledged after the new output and another one acknowledged it.
C12_Witness ==
    \E c \in DFCalls : \E t \in 1..DFMaxTx : \E k \in DFMembers :
       /\ DFAddedBy(c)
       /\ k # DFNumLabels + c
       /\ DFRegistered(DFNumLabels + c, t) /\ DFRegistered(k, t)
       /\ df_st[t][k] = "ok" /\ df_st[t][DFNumLabels + c] = "ok"
       /\ df_acks[t] = <<"ok">>

\* No SetOutput call has been made.
DFNoCalls == \A c \in DFCalls : df_call[c].pc = "none"

\* C19: a DynamicFanOut built with one output under L and shut down with
\* CloseAsync, with no SetOutput call: when it has closed (WaitForClose returns
\* success), the add hook has been invoked once for L and the remove hook not
\* at all.
C19_ShutdownHooks ==
    (df_closed /\ df_closeRaised /\ DFNoCalls) =>
       \A m \in DFLabels :
          df_outputs[m] = m =>
             /\ df_mem[m].onAdd = 1
             /\ \A k \in DFMembers : df_mem[k].onRemove = 0

\* The broker was built with the one output 1, which answered a transaction
\* with an error, and was then shut down by CloseAsync: the channel of the
\* output is closed.
C19_Witness ==
    /\ df_closed /\ df_closeRaised /\ DFNoCalls
    /\ df_outputs[1] = 1 /\ df_outputs[2] = DFNoMember
    /\ df_fails = 1
    /\ df_tx[1] = "abandoned"
    /\ df_mem[1].chanClosed

\* The hooks of the members of a DynamicFanIn: each is invoked at most once,
\* nothing is forwarded before the add hook, a forwarder that has exited has
\* invoked both, and the remove hook is invoked by a forwarder that has exited.
C18_FanInHooks ==
    \A m \in DIMembers :
       /\ di_m[m].onAdd \in {0, 1}
       /\ di_m[m].onRemove \in {0, 1}
       /\ di_m[m].fwd > 0 => di_m[m].onAdd = 1
       /\ di_m[m].onRemove = 1 => di_m[m].onAdd = 1 /\ di_m[m].pc = "done"
       /\ di_m[m].pc = "done" => di_m[m].onAdd = 1 /\ di_m[m].onRemove = 1

\* The hooks of the members of a DynamicFanOut.
C18_FanOutHooks ==
    \A m \in DFMembers :
       /\ df_mem[m].onAdd \in {0, 1}
       /\ df_mem[m].onRemove \in {0, 1}
       /\ df_mem[m].label # 0 => df_mem[m].onAdd = 1
       /\ df_mem[m].onRemove = 1 => df_mem[m].onAdd = 1
       /\ \A t \in 1..DFMaxTx : df_st[t][m] # "none" => df_mem[m].onAdd = 1

\* A step that forwards a transaction of a member is taken after its add hook
\* and before its remove hook.
C18_ForwardStep ==
    /\ \A m \in DIMembers :
          di_m'[m].fwd > di_m[m].fwd => di_m[m].onAdd = 1 /\ di_m[m].onRemove = 0
    /\ \A m \in DFMembers : \A t \in 1..DFMaxTx :
          (df_st'[t][m] = "sent" /\ df_st[t][m] # "sent") =>
             df_mem[m].onAdd = 1 /\ df_mem[m].onRemove = 0

\* C18: for each input added to a DynamicFanIn, and each output added to a
\* DynamicFanOut, under label L: OnAdd(L) is invoked once and OnRemove(L) at
\* most once, OnAdd(L) before any transaction of the member is forwarded, and
\* OnRemove(L) after the last one is forwarded and after OnAdd(L).
C18_HookOrder ==
    /\ [](C18_FanInHooks /\ C18_FanOutHooks)
    /\ [][C18_ForwardStep]_vars

\* An input added by SetInput had its add hook invoked, forwarded a
\* transaction, and had its remove hook invoked when it closed.
C18_Witness ==
    \E c \in DICalls :
       /\ di_call[c].pc = "ret" /\ di_call[c].res = "ok"
       /\ di_m[c].onAdd = 1 /\ di_m[c].fwd = 1 /\ di_m[c].onRemove = 1

\* C15: for every broker, a Consume call made after a Consume call that
\* succeeded returns the already-started error, leaves the inbound channel of
\* the successful call bound, and starts no second dispatch loop.
C15_SecondConsume ==
    /\ cs_loops <= 1
    /\ \A i \in 1..Len(cs_log) :
          cs_log[i].res = "ok" =>
             /\ cs_transactions = cs_log[i].ch
             /\ cs_loops = 1
             /\ \A j \in (i + 1)..Len(cs_log) : cs_log[j].res = "already-started"

\* A first Consume succeeded and a second one, with another channel, was refused.
C15_Witness ==
    /\ Len(cs_log) >= 2
    /\ cs_log[1].res = "ok"
    /\ cs_log[2].res = "already-started"
    /\ cs_log[2].ch # cs_log[1].ch
    /\ cs_transactions = cs_log[1].ch

\* The broker that is waited for has raised its closed signal.
CLClosedSignal ==
    \/ cl_kind = "RoundRobin" /\ rr_closedChan
    \/ cl_kind = "FanOutSequential" /\ fs_closedChan
    \/ cl_kind = "Retry" /\ rt_closed

\* Its dispatch loop and the goroutines it started have terminated.
CLLoopTerminated ==
    \/ cl_kind = "RoundRobin" /\ rr_pc = "done"
    \/ cl_kind = "FanOutSequential" /\ fs_started /\ \A w \in FSWorkers : fs_w[w].pc \in {"off", "done"}
    \/ cl_kind = "Retry" /\ rt_pc = "done" /\ \A t \in 1..RTSlots : rt_g[t].pc \in {"none", "done"}

\* Every per-output transaction channel is closed.
CLChannelsClosed ==
    \/ cl_kind = "RoundRobin" /\ \A k \in 0..(rr_N - 1) : rr_outClosed[k]
    \/ cl_kind = "FanOutSequential" /\ \A k \in 0..(fs_N - 1) : fs_outClosed[k]
    \/ cl_kind = "Retry" /\ rt_outClosed

CLCloseAsked ==
    \/ cl_kind = "RoundRobin" /\ rr_pc # "idle" /\ rr_closeChan
    \/ cl_kind = "FanOutSequential" /\ fs_started /\ fs_ctxDone
    \/ cl_kind = "Retry" /\ rt_pc # "idle" /\ rt_closeRaised

C20_BackPressure ==
    /\ fo_blocked # FONoOutput =>
          /\ fo_accepted <= fo_maxInFlight
          /\ \A t \in 1..FOSlots : fo_acks[t] = <<>>
    /\ sw_blocked # SWNoOutput =>
          /\ sw_accepted <= sw_maxInFlight
          /\ \A t \in 1..SWSlots : sw_acks[t] = <<>>

\* A FanOut of two outputs, one of which takes nothing: the other one has
\* acknowledged every accepted transaction, max-in-flight transactions are
\* accepted and the producer has one more to offer.
C20_Witness ==
    /\ fo_N = 2
    /\ fo_blocked = 1
    /\ fo_accepted = fo_maxInFlight
    /\ fo_accepted < fo_offer
    /\ \A t \in 1..fo_accepted : fo_st[t][0] = "ok" /\ fo_st[t][1] = "tosend"
    /\ ~fo_closeRaised /\ ~fo_inClosed

\* ------------------------------------------------------------------ C21
\* The cases a part with predicate outcomes row is routed to, as the contract
\* states them: a case whose predicate matches, every earlier matching case
\* of which declares continue.
SBRoutedTo(row) ==
    {i \in 0..(sb_N - 1) : row[i] = "yes" /\ \A j \in 0..(i - 1) : row[j] = "yes" => sb_continue[j]}

SBIncreasing(sub) == \A p \in 1..Len(sub) : \A q \in 1..Len(sub) : p < q => sub[p] < sub[q]

SBRoutedParts(i) == {k \in 1..(sb_k - 1) : i \in sb_targets[k]}

SBSubBatchesSent ==
    \A i \in SBCases :
        /\ Len(sb_out[i]) <= 1
        /\ Len(sb_out[i]) = 1 =>
              /\ sb_out[i][1] # <<>>
              /\ SBIncreasing(sb_out[i][1])
              /\ {sb_out[i][1][p] : p \in 1..Len(sb_out[i][1])} = SBRoutedParts(i)
        /\ (sb_pc = "done" /\ SBRoutedParts(i) # {}) => Len(sb_out[i]) = 1

SBRouteStep ==
    sb_k' = sb_k + 1 => sb_targets'[sb_k] = SBRoutedTo(sb_row')

\* C21: each part is routed to the first case whose predicate matches and to a
\* later matching case only while the matching cases before it declare
\* continue; the parts routed to a case are sent to its output as one
\* transaction, in the order of the batch, and a case no part is routed to is
\* sent nothing.
C21_SwitchRouting == []SBSubBatchesSent /\ [][SBRouteStep]_vars

C21_Witness ==
    /\ sb_pc = "done"
    /\ sb_N = 2 /\ sb_len = 2
    /\ sb_continue[0]
    /\ sb_targets[1] = {0, 1} /\ sb_targets[2] = {1}
    /\ sb_out[0] = <<(<<1>>)>> /\ sb_out[1] = <<(<<1, 2>>)>>

\* ------------------------------------------------------------------ C22
SBUnmatched == {k \in 1..(sb_k - 1) : sb_targets[k] = {}}

SBSentParts == UNION {{sb_out[i][1][p] : p \in 1..Len(sb_out[i][1])} : i \in {j \in SBCases : sb_out[j] # <<>>}}

SBAllSucceeded == \A i \in SBCases : sb_res[i].kind \in {"none", "ok"}

SBNoMatchStep ==
    (sb_k' = sb_k + 1 /\ \A i \in 0..(sb_N - 1) : sb_row'[i] # "yes") =>
        /\ sb_targets'[sb_k] = {}
        /\ sb_strict => sb_errs'[sb_k] =
               (IF \E i \in 0..(sb_N - 1) : sb_row'[i] = "err" THEN SBPredicateErr ELSE SBNoConditionErr)
        /\ ~sb_strict => sb_errs'[sb_k] = SBNoErr

SBUnmatchedOutcome ==
    /\ SBUnmatched \cap SBSentParts = {}
    /\ (sb_pc = "done" /\ ~sb_strict /\ SBAllSucceeded) => sb_ack = "ok"
    /\ (sb_pc = "done" /\ sb_strict /\ SBUnmatched # {}) =>
          /\ sb_ack = "batch"
          /\ \A k \in SBUnmatched : sb_errs[k] \in {SBPredicateErr, SBNoConditionErr}

\* C22: a part no predicate matches, a failed evaluation counting as no match,
\* is sent to no output; with strict_mode off the batch is acknowledged with
\* success when every sub-batch succeeded, with strict_mode on it is
\* acknowledged with an error that tags the unmatched parts.
C22_SwitchNoMatch == []SBUnmatchedOutcome /\ [][SBNoMatchStep]_vars

C22_Witness ==
    /\ sb_pc = "done"
    /\ sb_strict
    /\ sb_len = 2
    /\ sb_targets[1] = {} /\ sb_errs[1] = SBPredicateErr
    /\ sb_targets[2] # {} /\ sb_errs[2] = SBNoErr
    /\ SBAllSucceeded
    /\ sb_ack = "batch"

\* ------------------------------------------------------------------ C23
\* The output of case i reported a failure of part k of the batch, as error e.
SBReported(i, k, e) ==
    /\ sb_out[i] # <<>>
    /\ \/ /\ sb_res[i].kind = "err"
          /\ e = SBOutputErr(i, 0)
          /\ \E p \in 1..Len(sb_out[i][1]) : sb_out[i][1][p] = k
       \/ /\ sb_res[i].kind = "batch"
          /\ \E p \in sb_res[i].failed : sb_out[i][1][p] = k /\ e = SBOutputErr(i, p)

SBFailedParts == {k \in 1..sb_len : \E i \in SBCases : \E p \in 0..SBMaxParts : SBReported(i, k, SBOutputErr(i, p))}

SBIndexedErrors == {k \in SBParts : sb_errs[k] # SBNoErr}

SBAggregated ==
    /\ sb_ack = "ok" <=> SBAllSucceeded
    /\ sb_ack = "batch" =>
          /\ SBIndexedErrors = SBFailedParts
          /\ \A k \in SBFailedParts : \E i \in SBCases : SBReported(i, k, sb_errs[k])

\* C23 as stated, for every batch: violated by a batch with an unmatched part
\* under strict_mode, whose acknowledgment is an error although every
\* sub-batch succeeded.
C23_AggregateAnyBatch == sb_pc = "done" => SBAggregated

\* C23: when no part is left unmatched under strict_mode, the batch is
\* acknowledged with success iff every sub-batch was acknowledged with
\* success; otherwise with a batch error whose indexed errors are exactly the
\* positions in the batch of the failed parts, each carrying an error the
\* output reported for that part.
C23_Aggregate == (sb_pc = "done" /\ (sb_strict => SBUnmatched = {})) => SBAggregated

C23_Witness ==
    /\ sb_pc = "done"
    /\ sb_len = 2 /\ sb_N = 2
    /\ sb_out[0] = <<(<<1>>)>> /\ sb_out[1] = <<(<<2>>)>>
    /\ sb_res[0] = SBAckOk
    /\ sb_res[1] = [kind |-> "batch", failed |-> {1}]
    /\ sb_ack = "batch"
    /\ SBIndexedErrors = {2}
    /\ sb_errs[2] = SBOutputErr(1, 1)

\* ------------------------------------------------------------------ C24
SWUsed(t) == {i \in SWCases : sw_st[t][i] # "none"}

\* A case that succeeded is sent nothing more; a failed sub-batch is sent
\* again only under retry_until_success, and the other cases are left alone.
SWResendStep ==
    \A t \in 1..SWSlots : \A i \in SWCases :
        /\ sw_st[t][i] = "ok" => sw_st'[t][i] = "ok"
        /\ (sw_st[t][i] = "failed" /\ sw_st'[t][i] # "failed") =>
              /\ sw_retry
              /\ sw_st'[t][i] = "tosend"
              /\ \A j \in SWCases \ {i} : sw_st'[t][j] = sw_st[t][j]

SWAckedWhenSettled ==
    \A t \in 1..SWSlots :
        sw_acks[t] # <<>> =>
            /\ Len(sw_acks[t]) = 1
            /\ sw_retry => (sw_acks[t][1] = "ok" /\ \A i \in SWUsed(t) : sw_st[t][i] = "ok")
            /\ ~sw_retry =>
                  /\ \A i \in SWUsed(t) : sw_st[t][i] \in {"ok", "failed"}
                  /\ sw_acks[t][1] = "err" <=> \E i \in SWUsed(t) : sw_st[t][i] = "failed"

CLAccepted ==
    IF cl_kind = "RoundRobin" THEN rr_accepted
    ELSE IF cl_kind = "FanOutSequential" THEN fs_accepted
    ELSE IF cl_kind = "Retry" THEN rt_accepted
    ELSE 0

\* Once CloseAsync was called nothing more is received from the inbound channel.
CLNoReceiveAfterClose == CLCloseAsked => CLAccepted' = CLAccepted

\* Transaction id was carried through: RoundRobin put it on the channel of an
\* output, FanOutSequential and Retry acknowledged it.
CLCarriedThrough(id) ==
    \/ cl_kind = "RoundRobin" /\ \E k \in 0..(rr_N - 1) : \E p \in 1..Len(rr_out[k]) : rr_out[k][p].id = id
    \/ cl_kind = "FanOutSequential" /\ fs_acks[id] # <<>>
    \/ cl_kind = "Retry" /\ rt_acks[id] # <<>>

CLDrained == (CLCloseAsked /\ CLClosedSignal) => \A id \in 1..CLAccepted : CLCarriedThrough(id)

\* C25 as stated: after CloseAsync the broker receives nothing more, and when
\* it raises its closed signal every transaction it accepted was carried
\* through to its outputs and acknowledged.  Violated: the close case of
\* every select abandons the transaction in hand.
C25_DrainOnClose == []CLDrained /\ [][CLNoReceiveAfterClose]_vars


\* C26: a DynamicFanOut whose map is empty neither takes nor acknowledges nor
\* drops the transaction the producer offers: the send blocks.  A transaction is
\* taken only once the map holds an output, it is addressed to the outputs of
\* the map at that moment, an output that acknowledged success is not sent the
\* transaction again, and the producer is acknowledged, with success, only after
\* every addressed output acknowledged success.
DFTargets(t) == {m \in DFMembers : df_st[t][m] # "none"}
DFHeldWhileEmpty ==
    DFSnapshot(df_outputs, df_mem) = {} => df_accepted' = df_accepted
DFTakenForOutputs ==
    df_accepted' # df_accepted =>
        /\ df_accepted' = df_accepted + 1
        /\ DFSnapshot(df_outputs, df_mem) # {}
        /\ {m \in DFMembers : df_st'[df_accepted'][m] # "none"} = DFSnapshot(df_outputs, df_mem)
DFDeliveredOnce ==
    \A t \in 1..DFMaxTx : \A m \in DFMembers : 
        df_st[t][m] = "ok" => df_st'[t][m] \in {"ok", "cancelled"}
DFAckedAfterDelivery ==
    \A t \in 1..DFMaxTx :
        /\ t > df_accepted => df_acks[t] = <<>> /\ DFTargets(t) = {}
        /\ df_acks[t] # <<>> =>
              /\ df_acks[t] = <<"ok">>
              /\ DFTargets(t) # {}
              /\ \A m \in DFTargets(t) : df_st[t][m] = "ok"
C26_StartEmpty ==
    []DFAckedAfterDelivery /\ [][DFHeldWhileEmpty /\ DFTakenForOutputs /\ DFDeliveredOnce]_vars
\* The broker started with an empty map, a SetOutput call added the first
\* output, and the transaction was delivered to it and acknowledged.
C26_Witness ==
    /\ \A L \in DFLabels : df_mem[L].st = "none"
    /\ \E m \in DFMembers :
         /\ df_mem[m].st = "running"
         /\ DFTargets(1) = {m}
         /\ df_st[1][m] = "ok"
    /\ df_acks[1] = <<"ok">>

\* C27: in FanIn and in DynamicFanIn every transaction an input emitted is on the
\* merged channel exactly once or still held by the forwarder of that input,
\* none is lost, and once the closed signal is raised every one of them is on
\* the merged channel; what is on the merged channel is the emitted transaction
\* itself, with its payload and its acknowledgment sink, and the transactions
\* of one input are on it in the order the input emitted them.
FIEmittedTxs == UNION {{FITx(i, k) : k \in 1..fi_emitted[i]} : i \in FIInputs}
FIHeldTxs == {fi_in[i] : i \in {j \in FIInputs : fi_pc[j] = "fwd"}}
DIEmittedTxs ==
    UNION {{DITx(m, k) : k \in 1..(di_m[m].fwd + (IF di_m[m].pc = "fwd" THEN 1 ELSE 0))} :
             m \in DIMembers}
DIHeldTxs == {di_m[m].in : m \in {n \in DIMembers : di_m[n].pc = "fwd"}}
MergedExactlyOnce(merged, emitted, held, closed) ==
    /\ \A p \in 1..Len(merged) : merged[p] \in emitted
    /\ \A p, q \in 1..Len(merged) : p < q => merged[p] # merged[q]
    /\ \A p, q \in 1..Len(merged) :
          p < q /\ merged[p].payload[1] = merged[q].payload[1]
              => merged[p].payload[2] < merged[q].payload[2]
    /\ \A tx \in emitted :
          /\ (\E p \in 1..Len(merged) : merged[p] = tx) \/ tx \in held
          /\ ~((\E p \in 1..Len(merged) : merged[p] = tx) /\ tx \in held)
    /\ closed => held = {}
DIBetweenRequests == di_pc = "select"
DIInMapRunning(L) == di_inputs[L] # DINoMember /\ DILive(di_inputs[L])
DIAbsentExited(L) ==
    /\ di_inputs[L] = DINoMember
    /\ \A m \in DIMembers : di_m[m].label = L => ~DILive(m)
C28_LabelRunningOrAbsent ==
    DIBetweenRequests => \A L \in DILabels : DIInMapRunning(L) \/ DIAbsentExited(L)

\* C29: a SetInput call that has returned returned an error if the wait for the
\* existing input of the label timed out, and returned nil only if managerLoop
\* applied the requested change to the map, also when CloseAsync is called
\* while managerLoop is handing the result back.
DISetInputApplied(c) == ~di_call[c].timedOut /\ ~di_call[c].late
C29_SetInputResult ==
    \A c \in DICalls :
        di_call[c].pc = "ret" =>
            /\ di_call[c].timedOut => di_call[c].res \in {"timeout", "closed"}
            /\ di_call[c].res = "ok" => DISetInputApplied(c)

\* C30: the merged channel of a DynamicFanIn is closed only after the close
\* signal was raised and every forwarder has exited, and the closed signal is
\* raised only after the merged channel was closed; once the merged channel is
\* closed managerLoop has ended, so it is closed once, and no forwarder sends
\* on it any more.
DIMergedClosedLate ==
    /\ di_txClosed => di_closeChan /\ \A m \in DIMembers : ~DILive(m)
    /\ di_txClosed => \A L \in DILabels : di_inputs[L] = DINoMember
    /\ di_closedChan => di_txClosed
DIMergedClosedOnce ==
    /\ di_txClosed => di_txClosed' /\ di_pc = "done" /\ di_pc' = "done"
    /\ di_txClosed => di_merged' = di_merged
C30_MergedClosed == []DIMergedClosedLate /\ [][DIMergedClosedOnce]_vars
\* A DynamicFanIn whose input forwarded a transaction was shut down: the input
\* was removed after its forwarder exited, then the merged channel was closed.
C30_Witness ==
    /\ di_txClosed /\ di_closedChan
    /\ di_m[0].pc = "done"
    /\ di_m[0].onRemove = 1
    /\ di_merged = <<DITx(0, 1)>>

\* C31: in RoundRobin and FanOutSequential the per-output channels are closed
\* only after the inbound channel was closed or CloseAsync was called, and in
\* FanOutSequential only after every sendLoop goroutine has exited; they are
\* closed by one pass that finds none of them closed, they stay closed, and
\* nothing is sent on a per-output channel once it is closed.
RRChansClosedLate ==
    \A k \in 0..(MaxOutputs - 1) :
        rr_outClosed[k] => (rr_inClosed \/ rr_running = 0) /\ rr_pc \in {"closeall", "done"}
FSChansClosedLate ==
    \A k \in 0..(FSMaxOutputs - 1) :
        fs_outClosed[k] =>
            /\ fs_inClosed \/ fs_ctxDone
            /\ \A w \in FSWorkers : fs_w[w].pc \in {"off", "done"}
RRChansClosedOnce ==
    /\ rr_outClosed' # rr_outClosed => \A k \in 0..(MaxOutputs - 1) : ~rr_outClosed[k]
    /\ \A k \in 0..(MaxOutputs - 1) : rr_outClosed[k] => rr_out'[k] = rr_out[k]
FSChansClosedOnce ==
    /\ fs_outClosed' # fs_outClosed => \A k \in 0..(FSMaxOutputs - 1) : ~fs_outClosed[k]
    /\ (\E k \in 0..(FSMaxOutputs - 1) : fs_outClosed[k]) => fs_hist' = fs_hist
C31_OutputChansClosed ==
    /\ [](RRChansClosedLate /\ FSChansClosedLate)
    /\ [][RRChansClosedOnce /\ FSChansClosedOnce]_vars
\* A FanOutSequential of two outputs was shut down by CloseAsync while its
\* transaction had been sent to the first output only: both channels are closed.
C31_Witness ==
    /\ fs_N = 2
    /\ fs_ctxDone /\ ~fs_inClosed
    /\ fs_outClosed[0] /\ fs_outClosed[1]
    /\ Len(fs_hist[1]) > 0
    /\ fs_acks[1] = <<>>

\* C32: no forwarder waits in a channel operation that has no close case, so
\* once CloseAsync has closed closeChan a DynamicFanIn closes its merged
\* channel and raises its closed signal, whether or not the consumer receives
\* what the forwarders hold.
C32_ShutdownCompletes == di_closeChan ~> (di_txClosed /\ di_closedChan)

\* C33: at the step by which a SetInput call returns nil, the add hook of the
\* input it passed has been invoked, and, for a call that passed no input,
\* the remove hook of every input that was registered under the label has.
DIReturnsOk(c) ==
    di_call[c].pc # "ret" /\ di_call'[c].pc = "ret" /\ di_call'[c].res = "ok"
DIOnAddCompleted(c) == di_call[c].input => di_m[c].onAdd = 1
DIOnRemoveCompleted(c) ==
    ~di_call[c].input =>
        \A m \in DIMembers :
            (di_m[m].label = di_call[c].label /\ di_m[m].pc # "none") => di_m[m].onRemove = 1
C33_HooksBeforeReturn ==
    [][\A c \in DICalls : DIReturnsOk(c) => DIOnAddCompleted(c) /\ DIOnRemoveCompleted(c)]_vars

\* Inbound transactions accepted and not acknowledged, and the sendLoop
\* goroutines that hold a transaction.
FSUnacked == {t \in FSTxs : t <= fs_accepted /\ fs_acks[t] = <<>>}
FSInProgress == {w \in FSWorkers : fs_w[w].pc \in {"send", "wait", "throttle", "ack"}}
\* max-in-flight is 1 unless an output reports more, and WithMaxInFlight(i)
\* sets it to i, or to 1 when i < 1.
FSConfigured ==
    LET r == fs_cfg.reports[0]
        i == fs_cfg.with
    IN /\ fs_maxInFlight >= 1
       /\ i = FSNoCall /\ (r = FSNoReport \/ r <= 1) => fs_maxInFlight = 1
       /\ i = FSNoCall /\ r # FSNoReport /\ r > 1 => fs_maxInFlight = r
       /\ i # FSNoCall /\ i < 1 => fs_maxInFlight = 1
       /\ i # FSNoCall /\ i >= 1 => fs_maxInFlight = i
FreshSinks(hist) ==
    \A t1 \in DOMAIN hist : \A t2 \in DOMAIN hist :
        \A p1 \in 1..Len(hist[t1]) : \A p2 \in 1..Len(hist[t2]) :
            (/\ hist[t1][p1].ev = "send"
             /\ hist[t2][p2].ev = "send"
             /\ <<t1, p1>> # <<t2, p2>>) => hist[t1][p1].tx.sink # hist[t2][p2].tx.sink
C35_FreshSinkPerSend == FreshSinks(fs_hist) /\ FreshSinks(rt_hist)

\* The sendLoop goroutine of a FanOutSequential that holds inbound transaction t.
FSHolders(t) ==
    {w \in FSWorkers : fs_w[w].ts.id = t /\ fs_w[w].pc \in {"send", "wait", "throttle", "ack"}}
FSOutputsOk(t) ==
    {k \in 0..(fs_N - 1) : \E p \in 1..Len(fs_hist[t]) :
                              fs_hist[t][p].ev = "ok" /\ fs_hist[t][p].out = k}
\* C36 as stated: once the close signal is raised, a transaction with an output
\* that has not acknowledged success gets no further downstream send and
\* nothing is written to its inbound sink.
FSStopsAtClose ==
    \A t \in FSTxs :
        (fs_ctxDone /\ t <= fs_accepted /\ FSOutputsOk(t) # 0..(fs_N - 1)) =>
            /\ fs_acks'[t] = fs_acks[t]
            /\ Len(fs_hist'[t]) > Len(fs_hist[t]) => fs_hist'[t][Len(fs_hist'[t])].ev # "send"
FOStopsAtClose ==
    \A t \in 1..FOSlots :
        (fo_closeRaised /\ fo_tx[t] \in {"active", "abandoned"} /\ ~FOAllAcked(t)) =>
            /\ fo_acks'[t] = fo_acks[t]
            /\ \A i \in FOOutputs : FOSends(t, i)' = FOSends(t, i)
C36_StopsAtClose == [][FSStopsAtClose /\ FOStopsAtClose]_vars
\* C36: a transaction is given up only after the close signal was raised; once
\* it is given up it gets no further downstream send and nothing is written to
\* its inbound sink; and the inbound sink of a transaction is written only
\* with success, after every output acknowledged success.
FSAbandoned(t) == t <= fs_accepted /\ FSHolders(t) = {} /\ fs_acks[t] = <<>>
FSAbandonedAtClose ==
    \A t \in FSTxs :
        /\ FSAbandoned(t) => fs_ctxDone
        /\ fs_acks[t] # <<>> => fs_acks[t] = <<"ok">> /\ FSOutputsOk(t) = 0..(fs_N - 1)
FOAbandonedAtClose ==
    \A t \in 1..FOSlots :
        /\ fo_tx[t] = "abandoned" => fo_closeRaised /\ fo_acks[t] = <<>>
        /\ fo_acks[t] # <<>> => fo_acks[t] = <<"ok">> /\ FOAllAcked(t)
FSAbandonedStays ==
    \A t \in FSTxs :
        FSAbandoned(t) => FSAbandoned(t)' /\ fs_hist'[t] = fs_hist[t]
FOAbandonedStays ==
    \A t \in 1..FOSlots :
        fo_tx[t] = "abandoned" =>
            fo_tx'[t] = "abandoned" /\ fo_hist'[t] = fo_hist[t] /\ fo_acks'[t] = fo_acks[t]
C36_AbandonedAtClose ==
    /\ [](FSAbandonedAtClose /\ FOAbandonedAtClose)
    /\ [][FSAbandonedStays /\ FOAbandonedStays]_vars
\* CloseAsync was called while the second output of a FanOutSequential had not
\* acknowledged: the transaction was given up and its sink is empty.
C36_Witness ==
    /\ fs_N = 2
    /\ fs_ctxDone
    /\ FSAbandoned(1)
    /\ FSOutputsOk(1) = {0}
    /\ fs_closedChan

\* C37: for every output list NewRoundRobin accepts, the cursor is inside the
\* list whenever an accepted transaction is about to be sent, it advances by
\* one modulo the number of outputs with each completed send and is unchanged
\* otherwise, and the loop never indexes outside the list.
RRCursorInList == rr_pc = "send" => 0 <= rr_i /\ rr_i < rr_N
RRCursorStep ==
    rr_i' = IF Len(rr_out'[rr_i]) > Len(rr_out[rr_i]) THEN (rr_i + 1) % rr_N ELSE rr_i
C37_CursorInList ==
    /\ [](RRCursorInList /\ rr_pc # "panic")
    /\ [][rr_N > 0 => RRCursorStep]_vars

\* C38: the outbound channel of a Retry is closed only after every retry
\* goroutine has exited, the shutdown-complete signal is raised only after
\* that, and when the inbound channel closes without CloseAsync every accepted
\* transaction is acknowledged before the outbound channel is closed.
RTOutClosedAfterGoroutines ==
    rt_outClosed => \A t \in 1..RTSlots : rt_g[t].pc \in {"none", "done"}
RTSignalLast == rt_closed => rt_outClosed /\ rt_pc = "done"
RTAckedBeforeOutClosed ==
    (rt_outClosed /\ ~rt_closeRaised) =>
        \A t \in 1..RTSlots : t <= rt_accepted => rt_acks[t] # <<>>
C38_ShutdownOrder ==
    /\ RTOutClosedAfterGoroutines
    /\ RTSignalLast
    /\ RTAckedBeforeOutClosed

\* C39: a FanIn closes its merged channel and raises its closed signal once,
\* together, and only when every input has closed its channel and its
\* forwarder has reported; when all have (at once with no inputs) it does
\* close; CloseAsync asks every input to close and closes nothing itself.
FIAllReported ==
    \A i \in FIInputs : i < fi_N => fi_srcClosed[i] /\ fi_pc[i] = "done"
FIClosedOnlyWhenReported ==
    /\ fi_txClosed = fi_closedChan
    /\ fi_closedChan => FIAllReported /\ fi_loop = "done"
FIClosedOnce ==
    /\ fi_closedChan => fi_closedChan' /\ fi_txClosed'
    /\ fi_closedChan' # fi_closedChan => fi_loop = "run" /\ fi_loop' = "done"
    /\ fi_loop = "done" => fi_loop' = "done"
FICloseAsyncForwards ==
    fi_asked' # fi_asked =>
        /\ \A i \in FIInputs : i < fi_N => fi_asked'[i]
        /\ UNCHANGED <<fi_txClosed, fi_closedChan, fi_srcClosed, fi_loop>>
C39_ClosedWhenAllReported ==
    /\ []FIClosedOnlyWhenReported
    /\ [][FIClosedOnce /\ FICloseAsyncForwards]_vars
    /\ (fi_loop # "off" /\ FIAllReported) ~> fi_closedChan
C39_Witness ==
    /\ fi_N = 2
    /\ \A i \in FIInputs : fi_asked[i]
    /\ Len(fi_merged) > 0
    /\ fi_closedChan
    /\ fi_wait = "ok"

\* C40: after CloseAsync of a Pulsar writer the closed signal is eventually
\* raised, whether the writer was never connected, is connected or was
\* already disconnected when CloseAsync was called.
C40_ClosedAfterCloseAsync == pw_atLeisure ~> pw_hasClosed
====
